---- MODULE Spec2Model ----
(***************************************************************************)
(* A model of lib/gmailpush.js: one Gmailpush instance (this._api), the    *)
(* JSON file that stores every user's prevHistoryId and watchExpiration,   *)
(* the Gmail API as the nondeterministic provider of responses, and the    *)
(* retrieval calls getMessages, getMessagesWithoutAttachment and           *)
(* getNewMessage, one action per resumption of the async code.             *)
(*                                                                         *)
(* JavaScript values are represented as follows.  A property that may be   *)
(* undefined or null is a set with at most one element: {} when it is      *)
(* absent, {v} when it holds v.  Arrays are sequences.  A mime type        *)
(* "image/jpeg" is the record [type |-> "image", subtype |-> "jpeg"], so   *)
(* that startsWith("image/") is a test of the type field.                  *)
(***************************************************************************)
EXTENDS Integers, Sequences, FiniteSets, TLC

VARIABLES
  api,      \* this._api of the Gmailpush instance
  file,     \* the content of prevHistoryIdFilePath: None when the file does not exist
  pending,  \* the arrays handed to fs.writeFile and not yet written
  call,     \* the retrieval calls: where each one is and what it holds
  pin,      \* the input of a function applied on its own
  pout      \* its output

vars == <<api, file, pending, call, pin, pout>>

(***************************************************************************)
(* Bounds of the model.                                                    *)
(***************************************************************************)
MaxHistoryId == 2
MaxRecords == 2
MaxPages == 2
MaxLog == 2
MaxLabels == 2
MaxPending == 2
MaxHeader == 5
MaxNodes == 5

None == {}
Some(v) == {v}
The(o) == CHOOSE v \in o : TRUE

Accounts == {"user1", "user2"}
HistoryIds == 1..MaxHistoryId
Expirations == {100, 200}
Calls == {1, 2}

VALID_HISTORY_TYPES == <<"messageAdded", "messageDeleted", "labelAdded", "labelRemoved">>

Range(s) == {s[i] : i \in 1..Len(s)}

\* Array.prototype.includes
Includes(arr, x) == \E i \in 1..Len(arr) : arr[i] = x

RECURSIVE Flatten(_)
Flatten(ss) == IF ss = <<>> THEN <<>> ELSE Head(ss) \o Flatten(Tail(ss))

(***************************************************************************)
(* _makeHistoryTypePlural: replace(/^message|label/, '$&s') on the four    *)
(* valid history types (no other string reaches it).                       *)
(***************************************************************************)
_makeHistoryTypePlural(historyType) ==
  CASE historyType = "messageAdded" -> "messagesAdded"
    [] historyType = "messageDeleted" -> "messagesDeleted"
    [] historyType = "labelAdded" -> "labelsAdded"
    [] historyType = "labelRemoved" -> "labelsRemoved"

\* historyEntry.hasOwnProperty(property), for the four plural properties
HasOwnProperty(historyEntry, property) == historyEntry[property] # None

(***************************************************************************)
(* _filterHistory, first loop: for each of this._api.historyTypes in       *)
(* order, the entries that have the plural property, concatenated.         *)
(***************************************************************************)
\* a first loop that keeps every entry
Unfiltered(historyTypes, history) == history

\* a first loop that goes through the four types in their fixed order and keeps
\* the entries of those the caller listed
FilteredInFixedOrder(historyTypes, history) ==
  LET Group(historyType) ==
        IF Includes(historyTypes, historyType)
          THEN SelectSeq(history, LAMBDA historyEntry :
                 HasOwnProperty(historyEntry, _makeHistoryTypePlural(historyType)))
          ELSE <<>>
  IN Group("messageAdded") \o Group("messageDeleted")
       \o Group("labelAdded") \o Group("labelRemoved")

RECURSIVE FilteredWithHistoryTypes(_, _)
FilteredWithHistoryTypes(historyTypes, history) ==
  IF historyTypes = <<>> THEN <<>>
  ELSE SelectSeq(history, LAMBDA historyEntry :
           HasOwnProperty(historyEntry, _makeHistoryTypePlural(Head(historyTypes))))
       \o FilteredWithHistoryTypes(Tail(historyTypes), history)

\* a filter that asks for every id rather than for one of them
MatchingEveryLabel(labels, ids) ==
  Len(SelectSeq(labels, LAMBDA label :
        \A i \in 1..Len(ids) : Includes(label.labelIds, ids[i])))

\* labels.filter(label => ids.some(id => label.labelIds.includes(id))).length
MatchingLabels(labels, ids) ==
  Len(SelectSeq(labels, LAMBDA label :
        \E i \in 1..Len(ids) : Includes(label.labelIds, ids[i])))

\* a filter that also rejects the entries that have no labelsAdded
RejectedWithoutLabelsAdded(a, historyEntry) ==
  /\ a.addedLabelIds # None
  /\ \/ ~HasOwnProperty(historyEntry, "labelsAdded")
     \/ MatchingLabels(The(historyEntry.labelsAdded), The(a.addedLabelIds)) = 0

\* the first `if` of the second filter of _filterHistory: TRUE when it returns false
RejectedByAddedLabelIds(a, historyEntry) ==
  /\ a.addedLabelIds # None
  /\ HasOwnProperty(historyEntry, "labelsAdded")
  /\ MatchingLabels(The(historyEntry.labelsAdded), The(a.addedLabelIds)) = 0

\* the second `if` of the second filter of _filterHistory
RejectedByRemovedLabelIds(a, historyEntry) ==
  /\ a.removedLabelIds # None
  /\ HasOwnProperty(historyEntry, "labelsRemoved")
  /\ MatchingLabels(The(historyEntry.labelsRemoved), The(a.removedLabelIds)) = 0

FilteredWithAddedRemovedLabelIds(a, filtered) ==
  SelectSeq(filtered, LAMBDA historyEntry :
    /\ ~RejectedByAddedLabelIds(a, historyEntry)
    /\ ~RejectedByRemovedLabelIds(a, historyEntry))

_filterHistory(a, history) ==
  FilteredWithAddedRemovedLabelIds(a,
    FilteredWithHistoryTypes(The(a.historyTypes), history))

(***************************************************************************)
(* _filterMessage.  FilterMessageThrows is its first `if` (the error       *)
(* 'withLabelIds and withoutLabelIds should not have the same labelId');   *)
(* _filterMessage is the value it returns when it does not throw.          *)
(***************************************************************************)
FilterMessageThrows(a) ==
  /\ a.withLabelIds # None
  /\ a.withoutLabelIds # None
  /\ Len(SelectSeq(The(a.withLabelIds), LAMBDA labelId :
           Includes(The(a.withoutLabelIds), labelId))) > 0

WithLabelIdsMatches(a, message) ==
  Len(SelectSeq(The(a.withLabelIds), LAMBDA withLabelId :
        Includes(The(message.labelIds), withLabelId)))

\* a count that is 0 unless the message has every one of withoutLabelIds
WithoutLabelIdsAllMatch(a, message) ==
  IF \A i \in 1..Len(The(a.withoutLabelIds)) :
       Includes(The(message.labelIds), The(a.withoutLabelIds)[i])
    THEN Len(The(a.withoutLabelIds)) ELSE 0

WithoutLabelIdsMatches(a, message) ==
  Len(SelectSeq(The(a.withoutLabelIds), LAMBDA withoutLabelId :
        Includes(The(message.labelIds), withoutLabelId)))

\* a filter without the test that drops the messages that have no labelIds
FilterMessageKeepsUnlabelled(a, message) ==
  IF /\ message.labelIds # None
     /\ a.withLabelIds # None
     /\ WithLabelIdsMatches(a, message) = 0 THEN FALSE
  ELSE IF /\ message.labelIds # None
          /\ a.withoutLabelIds # None
          /\ WithoutLabelIdsMatches(a, message) > 0 THEN FALSE
  ELSE TRUE

_filterMessage(a, message) ==
  IF message.labelIds = None /\ a.withLabelIds # None THEN FALSE
  ELSE IF /\ message.labelIds # None
          /\ a.withLabelIds # None
          /\ WithLabelIdsMatches(a, message) = 0 THEN FALSE
  ELSE IF /\ message.labelIds # None
          /\ a.withoutLabelIds # None
          /\ WithoutLabelIdsMatches(a, message) > 0 THEN FALSE
  ELSE TRUE

(***************************************************************************)
(* _parsePayload: the walk of a message's payload.  parsedMessage is the   *)
(* record being filled; its bodyHtml, bodyText and attachments change.     *)
(* Buffer.from(data, 'base64').toString() is Base64ToString.               *)
(***************************************************************************)
Base64ToString(data) ==
  CASE data = "dGV4dA==" -> "text"
    [] data = "dGV4dDI=" -> "text2"
    [] data = "PGI+aDwvYj4=" -> "<b>h</b>"
    [] OTHER -> ""

IsAttachmentType(mimeType) ==
  mimeType.type \in {"image", "audio", "video", "application", "font", "model"}

RECURSIVE _parsePayload(_, _)
RECURSIVE ParseParts(_, _)
\* a walk that stops after the first part of a multipart payload
ParseFirstPartOnly(parts, parsedMessage) ==
  IF parts = <<>> THEN parsedMessage
  ELSE _parsePayload(Head(parts), parsedMessage)

_parsePayload(payload, parsedMessage) ==
  IF payload.mimeType.type = "multipart"
    THEN ParseParts(payload.parts, parsedMessage)
  ELSE IF payload.mimeType = [type |-> "text", subtype |-> "html"]
    THEN [parsedMessage EXCEPT !.bodyHtml = Some(Base64ToString(payload.body.data))]
  ELSE IF payload.mimeType = [type |-> "text", subtype |-> "plain"]
    THEN [parsedMessage EXCEPT !.bodyText = Some(Base64ToString(payload.body.data))]
  ELSE IF IsAttachmentType(payload.mimeType)
    THEN [parsedMessage EXCEPT !.attachments =
            Some(Append(The(@), [mimeType |-> payload.mimeType,
                                 filename |-> payload.filename,
                                 attachmentId |-> payload.body.attachmentId,
                                 size |-> payload.body.size,
                                 data |-> None]))]
  ELSE parsedMessage

\* for (const part of payload.parts) this._parsePayload(part, parsedMessage)
ParseParts(parts, parsedMessage) ==
  IF parts = <<>> THEN parsedMessage
  ELSE ParseParts(Tail(parts), _parsePayload(Head(parts), parsedMessage))

\* message.payload.headers.find(header => header.name === name), as its value
HeaderValue(headers, name) ==
  IF \E i \in 1..Len(headers) : headers[i].name = name
    THEN Some(headers[CHOOSE i \in 1..Len(headers) :
                 /\ headers[i].name = name
                 /\ \A j \in 1..(i - 1) : headers[j].name # name].value)
    ELSE None

\* the last of the history types the entry carries rather than the first
HistoryTypeOfLast(historyEntry) ==
  LET matching == SelectSeq(VALID_HISTORY_TYPES, LAMBDA historyType :
                    HasOwnProperty(historyEntry, _makeHistoryTypePlural(historyType)))
  IN IF matching = <<>> THEN "" ELSE matching[Len(matching)]

\* VALID_HISTORY_TYPES.filter(type => entry.hasOwnProperty(plural(type)))[0] || ''
HistoryTypeOf(historyEntry) ==
  LET matching == SelectSeq(VALID_HISTORY_TYPES, LAMBDA historyType :
                    HasOwnProperty(historyEntry, _makeHistoryTypePlural(historyType)))
  IN IF matching = <<>> THEN "" ELSE Head(matching)

(***************************************************************************)
(* _parseMessage.  The messages of this model carry Subject and Date       *)
(* headers only.                                                           *)
(***************************************************************************)
_parseMessage(message, historyEntry) ==
  LET parsedMessage == [message EXCEPT !.historyType = Some(HistoryTypeOf(historyEntry))]
  IN IF message.payload = None THEN parsedMessage
     ELSE LET payload == The(message.payload)
              withHeaders == [parsedMessage EXCEPT
                                !.subject = HeaderValue(payload.headers, "Subject"),
                                !.date = HeaderValue(payload.headers, "Date"),
                                !.attachments = Some(<<>>)]
          IN _parsePayload(payload, withHeaders)

\* the message users.messages.get resolved with (result.data)
RawMessage(id, labelIds, payload) ==
  [id |-> id, labelIds |-> labelIds, payload |-> payload, notFound |-> FALSE,
   attachments |-> None, historyType |-> None, subject |-> None, date |-> None,
   bodyText |-> None, bodyHtml |-> None]

\* a dummy message that has an empty labelIds
NotFoundWithLabelIds(messageId) ==
  [RawMessage(messageId, Some(<<>>), None) EXCEPT !.attachments = Some(<<>>), !.notFound = TRUE]

\* the dummy message _getMessageFromId makes of a 'Not Found' error
NotFoundMessage(messageId) ==
  [RawMessage(messageId, None, None) EXCEPT !.attachments = Some(<<>>), !.notFound = TRUE]

(***************************************************************************)
(* _getPropsFromOptions: the error it throws, if any.  An options object   *)
(* is [kind, unexpected, notification, token, historyTypes, addedLabelIds, *)
(* removedLabelIds, withLabelIds, withoutLabelIds]; kind tells an object   *)
(* from a missing argument and from a non-object, unexpected tells that it *)
(* has a key no method allows.                                             *)
(***************************************************************************)
OptionKeys == {"notification", "token", "historyTypes", "addedLabelIds",
               "removedLabelIds", "withLabelIds", "withoutLabelIds"}

KeysOf(options) ==
  {k \in OptionKeys : options[k] # None}
    \cup (IF options.unexpected THEN {"unexpectedKey"} ELSE {})

\* a validation that lets any key through
GetPropsAllowingAnyKey(options, required, optional) ==
  IF options.kind = "absent" THEN Some("Options must have")
  ELSE IF options.kind # "object" THEN Some("Options must be an object")
  ELSE IF required \ KeysOf(options) # {}
    THEN Some("Options must have the following")
  ELSE None

_getPropsFromOptions(options, required, optional) ==
  IF options.kind = "absent" THEN Some("Options must have")
  ELSE IF options.kind # "object" THEN Some("Options must be an object")
  ELSE IF KeysOf(options) \ (required \cup optional) # {}
    THEN Some("Options may only contain the following")
  ELSE IF required \ KeysOf(options) # {}
    THEN Some("Options must have the following")
  ELSE None

RetrievalRequired == {"notification", "token"}
RetrievalOptional == {"historyTypes", "addedLabelIds", "removedLabelIds",
                      "withLabelIds", "withoutLabelIds"}

(***************************************************************************)
(* _setApiPropertiesWithProps: the new this._api and the error thrown, if  *)
(* any.  What was assigned before the throw stays assigned.                *)
(***************************************************************************)
SetHistoryTypes(a, props) ==
  [a EXCEPT !.historyTypes =
     IF props.historyTypes # None THEN props.historyTypes ELSE Some(VALID_HISTORY_TYPES)]

SetAddedLabelIds(a, props) ==
  IF props.addedLabelIds # None THEN [a EXCEPT !.addedLabelIds = props.addedLabelIds] ELSE a

SetRemovedLabelIds(a, props) ==
  IF props.removedLabelIds # None THEN [a EXCEPT !.removedLabelIds = props.removedLabelIds] ELSE a

SetWithLabelIds(a, props) ==
  IF props.withLabelIds # None THEN [a EXCEPT !.withLabelIds = props.withLabelIds] ELSE a

SetWithoutLabelIds(a, props) ==
  IF props.withoutLabelIds # None THEN [a EXCEPT !.withoutLabelIds = props.withoutLabelIds] ELSE a

\* props.historyTypes.includes(historyType): a TypeError when historyTypes is undefined
LabelIdsError(props, historyType, message) ==
  IF props.historyTypes = None THEN Some("TypeError")
  ELSE IF ~Includes(The(props.historyTypes), historyType) THEN Some(message)
  ELSE None

_setApiPropertiesWithProps(a, props) ==
  LET a1 == SetHistoryTypes(a, props)
      e1 == IF props.addedLabelIds = None THEN None
            ELSE LabelIdsError(props, "labelAdded",
                   "addedLabelIds option should be used with labelAdded historyType")
      a2 == SetAddedLabelIds(a1, props)
      e2 == IF props.removedLabelIds = None THEN None
            ELSE LabelIdsError(props, "labelRemoved",
                   "removedLabelIds option should be used with labelRemoved historyType")
      a3 == SetRemovedLabelIds(a2, props)
  IN IF /\ props.historyTypes # None
        /\ \E i \in 1..Len(The(props.historyTypes)) :
              ~Includes(VALID_HISTORY_TYPES, The(props.historyTypes)[i])
       THEN [api |-> a, error |-> Some("historyTypes option may only contain the following")]
     ELSE IF e1 # None THEN [api |-> a1, error |-> e1]
     ELSE IF e2 # None THEN [api |-> a2, error |-> e2]
     ELSE [api |-> SetWithoutLabelIds(SetWithLabelIds(a3, props), props), error |-> None]

(***************************************************************************)
(* The provider: the change-log pages, the messages and the options the    *)
(* calls are made with.                                                    *)
(***************************************************************************)
HistoryEntry(id, messages, property, labels) ==
  [id |-> id, messages |-> messages,
   messagesAdded |-> IF property = "messagesAdded" THEN Some(messages) ELSE None,
   messagesDeleted |-> IF property = "messagesDeleted" THEN Some(messages) ELSE None,
   labelsAdded |-> IF property = "labelsAdded" THEN Some(labels) ELSE None,
   labelsRemoved |-> IF property = "labelsRemoved" THEN Some(labels) ELSE None]

EntryAdded == HistoryEntry(1, <<"m1">>, "messagesAdded", <<>>)
EntryDeleted == HistoryEntry(2, <<"m2">>, "messagesDeleted", <<>>)
EntryLabelAdded == HistoryEntry(3, <<"m1", "m3">>, "labelsAdded",
                     <<[labelIds |-> <<"IMPORTANT">>], [labelIds |-> <<"IMPORTANT">>]>>)

\* an entry of two kinds: a message moved out of the inbox under a label
EntryRelabelled ==
  [HistoryEntry(8, <<"m7">>, "labelsAdded", <<[labelIds |-> <<"IMPORTANT">>]>>)
     EXCEPT !.labelsRemoved = Some(<<[labelIds |-> <<"INBOX">>]>>)]

\* the `history` of one response of users.history.list: absent, or a page of entries
HistoryPages ==
  {None, Some(<<EntryAdded, EntryDeleted>>), Some(<<EntryLabelAdded>>),
   Some(<<EntryRelabelled>>)}

TextPart(subtype, data) ==
  [mimeType |-> [type |-> "text", subtype |-> subtype], filename |-> "",
   headers |-> <<>>, body |-> [data |-> data, attachmentId |-> "", size |-> 4],
   parts |-> <<>>]

ImagePart ==
  [mimeType |-> [type |-> "image", subtype |-> "jpeg"], filename |-> "example.jpg",
   headers |-> <<>>, body |-> [data |-> "", attachmentId |-> "att1", size |-> 2],
   parts |-> <<>>]

MixedPayload ==
  [mimeType |-> [type |-> "multipart", subtype |-> "mixed"], filename |-> "",
   headers |-> <<[name |-> "Subject", value |-> "this is subject"]>>,
   body |-> [data |-> "", attachmentId |-> "", size |-> 0],
   parts |-> <<TextPart("plain", "dGV4dA=="), ImagePart>>]

PdfPart ==
  [mimeType |-> [type |-> "application", subtype |-> "pdf"], filename |-> "example.pdf",
   headers |-> <<>>, body |-> [data |-> "", attachmentId |-> "att2", size |-> 3],
   parts |-> <<>>]

HtmlWithPdf ==
  [mimeType |-> [type |-> "multipart", subtype |-> "mixed"], filename |-> "",
   headers |-> <<[name |-> "Date", value |-> "Sun, 1 Mar 2020 10:00:00 +0900"]>>,
   body |-> [data |-> "", attachmentId |-> "", size |-> 0],
   parts |-> <<TextPart("html", "PGI+aDwvYj4="), PdfPart>>]

\* what users.messages.get answers for a message that exists
Mailbox(id) ==
  CASE id = "m1" -> RawMessage(id, Some(<<"INBOX", "IMPORTANT">>), Some(MixedPayload))
    [] id = "m3" -> RawMessage(id, Some(<<"SENT", "IMPORTANT">>), Some(HtmlWithPdf))
    [] id = "m9" -> RawMessage(id, Some(<<"SENT", "INBOX">>),
                               Some(TextPart("plain", "dGV4dA==")))
    [] OTHER -> RawMessage(id, Some(<<"INBOX">>), Some(TextPart("plain", "dGV4dA==")))

Notifications ==
  [wellFormed : {TRUE}, emailAddress : Accounts, historyId : HistoryIds]

Options(notification, historyTypes, addedLabelIds, removedLabelIds, withLabelIds, withoutLabelIds) ==
  [kind |-> "object", unexpected |-> FALSE,
   notification |-> Some(notification), token |-> Some("token"),
   historyTypes |-> historyTypes,
   addedLabelIds |-> addedLabelIds, removedLabelIds |-> removedLabelIds,
   withLabelIds |-> withLabelIds, withoutLabelIds |-> withoutLabelIds]

DefaultOptions(notification) == Options(notification, None, None, None, None, None)

\* the options of the retrieval calls made on the instance: none; those of the
\* README's usage of getMessages; some that _setApiPropertiesWithProps rejects after
\* it has set addedLabelIds; an exclusion
OptionChoices(notification) ==
  { DefaultOptions(notification),
    Options(notification, Some(<<"labelAdded">>), Some(<<"IMPORTANT">>), None,
            Some(<<"INBOX">>), None),
    Options(notification, Some(<<"labelAdded">>), Some(<<"UNREAD">>), Some(<<"UNREAD">>),
            None, None),
    Options(notification, Some(<<"messageDeleted", "messageAdded">>), None, None,
            None, Some(<<"IMPORTANT">>)),
    Options(notification, Some(<<"labelRemoved">>), None, None, None, None) }

Methods == {"getMessages", "getMessagesWithoutAttachment", "getNewMessage"}

(***************************************************************************)
(* The state after construction (new Gmailpush(options)), no call made.    *)
(***************************************************************************)
InitialApi ==
  [emailAddress |-> None, prevHistories |-> <<>>, startHistoryId |-> None,
   historyTypes |-> None, addedLabelIds |-> None, removedLabelIds |-> None,
   withLabelIds |-> None, withoutLabelIds |-> None]

IdleCall ==
  [pc |-> "idle", method |-> "", options |-> None, props |-> None,
   prevHistory |-> None, detached |-> None,
   loaded |-> None, expiration |-> None, written |-> None, shouldProceed |-> None,
   requests |-> <<>>, pages |-> <<>>, fetchedHistory |-> None, history |-> <<>>,
   fetched |-> <<>>, completed |-> <<>>, messages |-> <<>>, attached |-> {},
   result |-> None, error |-> None]

PrevHistory(emailAddress, prevHistoryId, watchExpiration) ==
  [emailAddress |-> emailAddress, prevHistoryId |-> prevHistoryId,
   watchExpiration |-> watchExpiration]

\* the files a first call can find: none, or one an earlier process has written
InitialFiles ==
  {None}
    \cup {Some(<<PrevHistory("user1", p, Some(100))>>) : p \in HistoryIds}
    \cup {Some(<<PrevHistory("user2", p, Some(100)), PrevHistory("user1", p, Some(200))>>) :
            p \in HistoryIds}

NoInput == [function |-> "none"]

Init ==
  /\ api = InitialApi
  /\ file \in InitialFiles
  /\ pending = <<>>
  /\ call = [c \in Calls |-> IdleCall]
  /\ pin = NoInput
  /\ pout = None

(***************************************************************************)
(* Helpers of _initialize and _getHistory.                                 *)
(***************************************************************************)
\* Number(this._parseNotificationPayload(notification).historyId)
_getHistoryId(notification) == notification.historyId

\* prevHistories.find(prevHistory => prevHistory.emailAddress === emailAddress),
\* as the index of the element found
\* a find that takes the first record whatever its emailAddress
FindFirst(prevHistories, emailAddress) ==
  IF prevHistories = <<>> THEN None ELSE Some(1)

Find(prevHistories, emailAddress) ==
  IF \E i \in 1..Len(prevHistories) : prevHistories[i].emailAddress = emailAddress
    THEN Some(CHOOSE i \in 1..Len(prevHistories) :
                /\ prevHistories[i].emailAddress = emailAddress
                /\ \A j \in 1..(i - 1) : prevHistories[j].emailAddress # emailAddress)
    ELSE None

\* a comparison that takes an equal historyId for a new one
IsStaleStrict(historyId, prevHistoryId) == historyId < prevHistoryId

\* the comparison of _initialize: the notification brings nothing new
IsStale(historyId, prevHistoryId) == historyId <= prevHistoryId

\* startHistoryId taken after prevHistoryId has been overwritten
StartHistoryIdAfterUpdate(prevHistory, historyId) == historyId

\* this._api.startHistoryId = prevHistory.prevHistoryId, before prevHistoryId is overwritten
StartHistoryId(prevHistory, historyId) == prevHistory.prevHistoryId

\* prevHistoryId overwritten whatever the comparison says
RefreshedAlways(prevHistory, historyId, expiration) ==
  [prevHistory EXCEPT !.watchExpiration = Some(expiration), !.prevHistoryId = historyId]

\* watchExpiration stored only when the notification is new
RefreshedWhenFresh(prevHistory, historyId, expiration) ==
  IF IsStale(historyId, prevHistory.prevHistoryId) THEN prevHistory
  ELSE [prevHistory EXCEPT !.watchExpiration = Some(expiration),
                           !.prevHistoryId = historyId]

\* prevHistory as _initialize leaves it, given the expiration users.watch returned
Refreshed(prevHistory, historyId, expiration) ==
  [prevHistory EXCEPT
     !.watchExpiration = Some(expiration),
     !.prevHistoryId = IF IsStale(historyId, @) THEN @ ELSE historyId]

\* a request to the Gmail API, as the call records it
Request(method, userId, startHistoryId, pageToken, id) ==
  [method |-> method, userId |-> userId, startHistoryId |-> startHistoryId,
   pageToken |-> pageToken, id |-> id, messageId |-> None]

\* return [].concat(await this._getHistory(nextPageToken)), in a frame whose page is history
ConcatPage(history, rest) == rest

\* what the outermost _getHistory returns: pages are the `history` of the responses
\* in order, one per frame of the recursion; the last one came without nextPageToken
\* and its frame returns history || []
RECURSIVE _getHistory(_)
_getHistory(pages) ==
  IF Len(pages) = 1 THEN (IF Head(pages) = None THEN <<>> ELSE The(Head(pages)))
  ELSE ConcatPage(Head(pages), _getHistory(Tail(pages)))

\* the (entry, message) pairs of history.map(entry => entry.messages.map(...)), in order
RECURSIVE Positions(_, _)
Positions(history, i) ==
  IF i > Len(history) THEN <<>>
  ELSE [j \in 1..Len(history[i].messages) |-> [entry |-> i, message |-> j]]
       \o Positions(history, i + 1)

\* the attachments of the first message only
AttachmentPositionsOfFirst(messages, i) ==
  IF messages = <<>> THEN <<>>
  ELSE [j \in 1..Len(The(messages[1].attachments)) |-> [message |-> 1, attachment |-> j]]

\* the (message, attachment) pairs of messages.map(m => m.attachments.map(...)), in order
RECURSIVE AttachmentPositions(_, _)
AttachmentPositions(messages, i) ==
  IF i > Len(messages) THEN <<>>
  ELSE [j \in 1..Len(The(messages[i].attachments)) |-> [message |-> i, attachment |-> j]]
       \o AttachmentPositions(messages, i + 1)

RECURSIVE RequestsFor(_, _, _)
RequestsFor(ids, method, userId) ==
  IF ids = <<>> THEN <<>>
  ELSE <<Request(method, userId, None, None, Some(Head(ids)))>>
       \o RequestsFor(Tail(ids), method, userId)

\* the users.messages.attachments.get requests of getAttachment, one per position
AttachmentRequests(messages, wanted, userId) ==
  [k \in 1..Len(wanted) |->
     [Request("attachments.get", userId, None, None,
              Some(The(messages[wanted[k].message].attachments)[wanted[k].attachment].attachmentId))
        EXCEPT !.messageId = Some(messages[wanted[k].message].id)]]

\* a rejection that hands over the messages the call has so far
RejectedWithMessages(rec, message) ==
  [rec EXCEPT !.pc = "rejected", !.error = Some(message), !.result = Some(rec.messages)]

Rejected(rec, message) == [rec EXCEPT !.pc = "rejected", !.error = Some(message)]

Resolved(rec, messages) ==
  [rec EXCEPT !.pc = "resolved", !.messages = messages, !.result = Some(messages)]

(***************************************************************************)
(* The end of getMessagesWithoutAttachment, from messages.filter on, and   *)
(* what getMessages and getNewMessage do with its result up to their first *)
(* await: parsed is the flattened list of parsed messages.                 *)
(***************************************************************************)
AfterMessages(a, rec, parsed) ==
  IF Len(parsed) > 0 /\ FilterMessageThrows(a)
    THEN Rejected(rec,
           "withLabelIds and withoutLabelIds should not have the same labelId")
  ELSE LET filtered == SelectSeq(parsed, LAMBDA message : _filterMessage(a, message))
           messages == IF rec.method = "getNewMessage"
                         THEN SubSeq(filtered, 1, IF Len(filtered) > 0 THEN 1 ELSE 0)
                         ELSE filtered
           wanted == AttachmentPositions(messages, 1)
       IN IF rec.method = "getMessagesWithoutAttachment" \/ wanted = <<>>
            THEN Resolved(rec, messages)
            ELSE [rec EXCEPT !.pc = "attachments", !.messages = messages,
                             !.requests = @ \o AttachmentRequests(messages, wanted,
                                                                  The(a.emailAddress))]

\* an envelope taken for decoded whatever its data
GetEmailAddressUnchecked(notification) == Some(notification.emailAddress)

\* getEmailAddress(notification): the emailAddress of the decoded payload, or None
\* when JSON.parse throws on message.data
getEmailAddress(notification) ==
  IF notification.wellFormed THEN Some(notification.emailAddress) ELSE None

\* getNewMessage with the exclusion of SENT left out
PinnedWithoutExclusion(options) ==
  [options EXCEPT !.historyTypes = Some(<<"messageAdded">>),
                  !.withLabelIds = Some(<<"INBOX">>)]

\* the props of getNewMessage: the options, with the three it sets itself
PinnedProps(options) ==
  [options EXCEPT !.historyTypes = Some(<<"messageAdded">>),
                  !.withLabelIds = Some(<<"INBOX">>),
                  !.withoutLabelIds = Some(<<"SENT">>)]

(***************************************************************************)
(* A retrieval call, up to its first await (fs.readFile in _initialize):   *)
(* _getPropsFromOptions, the options getNewMessage pins,                   *)
(* _setApiPropertiesWithProps, setCredentials and getEmailAddress.         *)
(***************************************************************************)
Invoke(c, method, options) ==
  /\ call[c].pc = "idle"
  /\ LET invalid == _getPropsFromOptions(options, RetrievalRequired,
                      IF method = "getNewMessage" THEN {} ELSE RetrievalOptional)
         props == IF method = "getNewMessage" THEN PinnedProps(options) ELSE options
         set == _setApiPropertiesWithProps(api, props)
         rec == [IdleCall EXCEPT !.method = method, !.options = Some(options),
                                 !.props = Some(props)]
         notification == The(props.notification)
     IN IF invalid # None
          THEN /\ call' = [call EXCEPT ![c] = Rejected(rec, The(invalid))]
               /\ api' = api
        ELSE IF set.error # None
          THEN /\ call' = [call EXCEPT ![c] = Rejected(rec, The(set.error))]
               /\ api' = set.api
        ELSE IF getEmailAddress(notification) = None
          THEN /\ call' = [call EXCEPT ![c] = Rejected(rec, "SyntaxError")]
               /\ api' = set.api
        ELSE /\ call' = [call EXCEPT ![c] = [rec EXCEPT !.pc = "readFile"]]
             /\ api' = [set.api EXCEPT !.emailAddress = getEmailAddress(notification)]
  /\ UNCHANGED <<file, pending, pin, pout>>

(***************************************************************************)
(* _initialize from the completion of fs.readFile to the await of          *)
(* users.watch.  JSON.parse makes a new array, so the prevHistory another  *)
(* call holds is no longer an element of this._api.prevHistories.          *)
(***************************************************************************)
\* a call whose prevHistory stays an element of this._api.prevHistories
Attached(d) == call[d]

Detached(d) ==
  IF call[d].pc = "watch" /\ call[d].prevHistory # None /\ call[d].detached = None
    THEN [call[d] EXCEPT !.detached = Some(api.prevHistories[The(call[d].prevHistory)])]
    ELSE call[d]

ReadFile(c) ==
  /\ call[c].pc = "readFile"
  /\ file = None => Len(api.prevHistories) < MaxRecords
  /\ LET notification == The(The(call[c].props).notification)
         prevHistories ==
           IF file = None
             THEN Append(api.prevHistories,
                         PrevHistory(The(api.emailAddress), _getHistoryId(notification), None))
             ELSE The(file)
     IN /\ api' = [api EXCEPT !.prevHistories = prevHistories]
        /\ call' = [d \in Calls |->
             IF d = c
               THEN [call[c] EXCEPT
                       !.pc = "watch",
                       !.loaded = Some(file),
                       !.prevHistory = Find(prevHistories, The(api.emailAddress)),
                       !.requests = Append(@, Request("users.watch",
                                                The(api.emailAddress), None, None, None))]
             ELSE IF file = None THEN call[d] ELSE Detached(d)]
  /\ UNCHANGED <<file, pending, pin, pout>>

\* fs.readFile fails with another error than ENOENT
ReadFileFails(c) ==
  /\ call[c].pc = "readFile"
  /\ call' = [call EXCEPT ![c] = Rejected(@, "EACCES")]
  /\ UNCHANGED <<api, file, pending, pin, pout>>

(***************************************************************************)
(* _initialize from the response of users.watch to its return, and the     *)
(* caller up to its next await: the return of an empty result when         *)
(* shouldProceed is false, the first users.history.list otherwise.         *)
(* fs.writeFile is not awaited: the array is handed over and written later.*)
(***************************************************************************)
WatchDone(c, expiration) ==
  /\ call[c].pc = "watch"
  /\ IF call[c].prevHistory = None
       THEN \* prevHistory is undefined: the assignment throws a TypeError
            /\ call' = [call EXCEPT ![c] = Rejected(@, "TypeError")]
            /\ UNCHANGED <<api, pending>>
       ELSE LET i == The(call[c].prevHistory)
                historyId == _getHistoryId(The(The(call[c].props).notification))
                old == IF call[c].detached = None THEN api.prevHistories[i]
                       ELSE The(call[c].detached)
                stale == IsStale(historyId, old.prevHistoryId)
                new == Refreshed(old, historyId, expiration)
                prevHistories == IF call[c].detached = None
                                   THEN [api.prevHistories EXCEPT ![i] = new]
                                   ELSE api.prevHistories
                a == [api EXCEPT
                        !.prevHistories = prevHistories,
                        !.startHistoryId = IF stale THEN @
                                           ELSE Some(StartHistoryId(old, historyId))]
                rec == [call[c] EXCEPT
                          !.expiration = Some(expiration),
                          !.detached = IF @ = None THEN @ ELSE Some(new),
                          !.written = Some(prevHistories),
                          !.shouldProceed = Some(~stale)]
            IN /\ api' = a
               /\ pending' = Append(pending, prevHistories)
               /\ call' = [call EXCEPT ![c] =
                    IF stale THEN Resolved(rec, <<>>)
                    ELSE [rec EXCEPT
                            !.pc = "history",
                            !.requests = Append(@, Request("history.list",
                                The(a.emailAddress), a.startHistoryId, None, None))]]
  /\ UNCHANGED <<file, pin, pout>>

\* a cycle that writes the array before it learns that users.watch failed
WatchFailsAfterWrite(c) ==
  /\ call[c].pc = "watch"
  /\ call' = [call EXCEPT ![c] = Rejected(@, "users.watch failed")]
  /\ pending' = Append(pending, api.prevHistories)
  /\ UNCHANGED <<api, file, pin, pout>>

WatchFails(c) ==
  /\ call[c].pc = "watch"
  /\ call' = [call EXCEPT ![c] = Rejected(@, "users.watch failed")]
  /\ UNCHANGED <<api, file, pending, pin, pout>>

\* a write handed to fs.writeFile reaches the file
WriteFile ==
  /\ pending # <<>>
  /\ file' = Some(Head(pending))
  /\ pending' = Tail(pending)
  /\ UNCHANGED <<api, call, pin, pout>>

\* a request for the next page that leaves the token out
NextPageRequestWithoutToken(a, nextPageToken) ==
  Request("history.list", The(a.emailAddress), a.startHistoryId, None, None)

\* the options of users.history.list in _getHistory(nextPageToken)
NextPageRequest(a, nextPageToken) ==
  Request("history.list", The(a.emailAddress), a.startHistoryId, Some(nextPageToken), None)

(***************************************************************************)
(* _getHistory at a response of users.history.list.  With a nextPageToken  *)
(* (the number of the next page) the next page is requested; without, the  *)
(* frames return, _filterHistory runs and every message of every entry     *)
(* left is requested at once.                                              *)
(***************************************************************************)
HistoryList(c, history, more) ==
  /\ call[c].pc = "history"
  /\ more => Len(call[c].pages) + 1 < MaxPages
  /\ LET pages == Append(call[c].pages, history)
         nextPageToken == Len(pages) + 1
         fetched == _getHistory(pages)
         filtered == _filterHistory(api, fetched)
         wanted == Positions(filtered, 1)
         ids == [k \in 1..Len(wanted) |->
                   filtered[wanted[k].entry].messages[wanted[k].message]]
         rec == [call[c] EXCEPT !.pages = pages, !.fetchedHistory = Some(fetched),
                                !.history = filtered]
     IN call' = [call EXCEPT ![c] =
          IF more
            THEN [call[c] EXCEPT
                    !.pages = pages,
                    !.requests = Append(@, NextPageRequest(api, nextPageToken))]
          ELSE IF Len(filtered) > 0 /\ wanted # <<>>
            THEN [rec EXCEPT
                    !.pc = "messages",
                    !.fetched = [k \in 1..Len(wanted) |-> None],
                    !.requests = @ \o RequestsFor(ids, "messages.get",
                                                  The(api.emailAddress))]
          ELSE AfterMessages(api, rec, <<>>)]
  /\ UNCHANGED <<api, file, pending, pin, pout>>

HistoryListFails(c) ==
  /\ call[c].pc = "history"
  /\ call' = [call EXCEPT ![c] = Rejected(@, "users.history.list failed")]
  /\ UNCHANGED <<api, file, pending, pin, pout>>

\* the parsed messages in the order in which their responses came
AssembledAsCompleted(fetched, completed) ==
  [n \in 1..Len(fetched) |-> The(fetched[completed[n]])]

\* the value of the nested Promise.all, flattened by reduce: the parsed messages in
\* the order of history.map and historyEntry.messages.map; completed is the order in
\* which the responses came
Assembled(fetched, completed) ==
  [n \in 1..Len(fetched) |-> The(fetched[n])]

(***************************************************************************)
(* _getMessageFromId at the response to the k-th users.messages.get, then  *)
(* _parseMessage; once every message is there, the rest of the call.       *)
(***************************************************************************)
MessagesGet(c, k, found) ==
  /\ call[c].pc = "messages"
  /\ k \in 1..Len(call[c].fetched)
  /\ call[c].fetched[k] = None
  /\ LET position == Positions(call[c].history, 1)[k]
         historyEntry == call[c].history[position.entry]
         messageId == historyEntry.messages[position.message]
         message == IF found THEN Mailbox(messageId) ELSE NotFoundMessage(messageId)
         fetched == [call[c].fetched EXCEPT
                       ![k] = Some(_parseMessage(message, historyEntry))]
         rec == [call[c] EXCEPT !.fetched = fetched, !.completed = Append(@, k)]
     IN call' = [call EXCEPT ![c] =
          IF \A n \in 1..Len(fetched) : fetched[n] # None
            THEN AfterMessages(api, rec, Assembled(fetched, rec.completed))
            ELSE rec]
  /\ UNCHANGED <<api, file, pending, pin, pout>>

\* users.messages.get fails with another error than 'Not Found'
MessagesGetFails(c) ==
  /\ call[c].pc = "messages"
  /\ call' = [call EXCEPT ![c] = Rejected(@, "users.messages.get failed")]
  /\ UNCHANGED <<api, file, pending, pin, pout>>

(***************************************************************************)
(* getAttachment at the response to users.messages.attachments.get:        *)
(* attachment.data = Buffer.from(data, 'base64').                          *)
(***************************************************************************)
AttachmentsGet(c, k) ==
  /\ call[c].pc = "attachments"
  /\ LET wanted == AttachmentPositions(call[c].messages, 1)
     IN /\ k \in 1..Len(wanted)
        /\ k \notin call[c].attached
        /\ LET messages == [call[c].messages EXCEPT
                              ![wanted[k].message].attachments =
                                 Some([The(@) EXCEPT ![wanted[k].attachment].data =
                                                        Some("Buffer")])]
               rec == [call[c] EXCEPT !.messages = messages,
                                      !.attached = @ \cup {k}]
           IN call' = [call EXCEPT ![c] =
                IF rec.attached = 1..Len(wanted) THEN Resolved(rec, messages) ELSE rec]
  /\ UNCHANGED <<api, file, pending, pin, pout>>

AttachmentsGetFails(c) ==
  /\ call[c].pc = "attachments"
  /\ call' = [call EXCEPT ![c] = Rejected(@, "users.messages.attachments.get failed")]
  /\ UNCHANGED <<api, file, pending, pin, pout>>

\* the caller has the result or the error of the call
Return(c) ==
  /\ call[c].pc \in {"resolved", "rejected"}
  /\ call' = [call EXCEPT ![c] = IdleCall]
  /\ UNCHANGED <<api, file, pending, pin, pout>>

(***************************************************************************)
(* Spec: retrieval calls for two users made one after another, each once   *)
(* the call before has returned and its write has reached the file.  The   *)
(* calls carry no optional option.                                         *)
(***************************************************************************)
Quiet == pending = <<>> /\ \A d \in Calls : call[d].pc = "idle"

InvokeNext ==
  \E method \in Methods, notification \in Notifications :
    Quiet /\ Invoke(1, method, DefaultOptions(notification))

ReadFileNext == ReadFile(1)
ReadFileFailsNext == ReadFileFails(1)
WatchDoneNext == \E expiration \in Expirations : WatchDone(1, expiration)
WatchFailsNext == WatchFails(1)
HistoryListNext ==
  \E history \in {None, Some(<<EntryAdded>>)}, more \in BOOLEAN :
    HistoryList(1, history, more)
HistoryListFailsNext == HistoryListFails(1)
MessagesGetNext == \E k \in 1..4, found \in BOOLEAN : MessagesGet(1, k, found)
MessagesGetFailsNext == MessagesGetFails(1)
AttachmentsGetNext == \E k \in 1..4 : AttachmentsGet(1, k)
AttachmentsGetFailsNext == AttachmentsGetFails(1)
ReturnNext == Return(1)

Next ==
  \/ InvokeNext
  \/ ReadFileNext
  \/ ReadFileFailsNext
  \/ WatchDoneNext
  \/ WatchFailsNext
  \/ HistoryListNext
  \/ HistoryListFailsNext
  \/ MessagesGetNext
  \/ MessagesGetFailsNext
  \/ AttachmentsGetNext
  \/ AttachmentsGetFailsNext
  \/ ReturnNext
  \/ WriteFile

Spec == Init /\ [][Next]_vars

(***************************************************************************)
(* SpecRetrieval: retrieval calls for one user whose record is in the      *)
(* file, made one after another with varying options, against a change log *)
(* of up to MaxPages pages.                                                *)
(***************************************************************************)
InitRetrieval ==
  /\ api = InitialApi
  /\ file = Some(<<PrevHistory("user1", 1, Some(100))>>)
  /\ pending = <<>>
  /\ call = [c \in Calls |-> IdleCall]
  /\ pin = NoInput
  /\ pout = None

InvokeRetrieval ==
  \E method \in Methods, historyId \in HistoryIds :
    \E options \in OptionChoices([wellFormed |-> TRUE, emailAddress |-> "user1",
                                  historyId |-> historyId]) :
      Quiet /\ Invoke(1, method, options)

WatchDoneRetrieval == WatchDone(1, 200)

HistoryListRetrieval ==
  \E history \in HistoryPages, more \in BOOLEAN : HistoryList(1, history, more)

NextRetrieval ==
  \/ InvokeRetrieval
  \/ ReadFileNext
  \/ WatchDoneRetrieval
  \/ HistoryListRetrieval
  \/ HistoryListFailsNext
  \/ MessagesGetNext
  \/ MessagesGetFailsNext
  \/ AttachmentsGetNext
  \/ AttachmentsGetFailsNext
  \/ ReturnNext
  \/ WriteFile

SpecRetrieval == InitRetrieval /\ [][NextRetrieval]_vars

(***************************************************************************)
(* SpecOptions: retrieval calls for one user whose record is in the file,  *)
(* made one after another with options that the validation accepts or      *)
(* rejects, or whose withLabelIds and withoutLabelIds share an id, against *)
(* a change log whose entries may be of none of the four types.            *)
(***************************************************************************)
\* three messages added at once, the first one sent by the user to themself
EntryAddedSent == HistoryEntry(9, <<"m9", "m1", "m8">>, "messagesAdded", <<>>)

\* an entry of none of the four types
EntryUntyped == HistoryEntry(7, <<"m6">>, "", <<>>)

OptionsPages == {None, Some(<<>>), Some(<<EntryUntyped>>), Some(<<EntryAddedSent>>)}

ValidationChoices(notification) ==
  LET default == DefaultOptions(notification)
  IN { default,
       [default EXCEPT !.kind = "absent"],
       [default EXCEPT !.kind = "string"],
       [default EXCEPT !.unexpected = TRUE],
       [default EXCEPT !.token = None],
       [default EXCEPT !.notification = None],
       Options(notification, Some(<<"messageAdded", "messageRemoved">>), None, None, None, None),
       Options(notification, None, Some(<<"IMPORTANT">>), None, None, None),
       Options(notification, Some(<<"messageAdded">>), Some(<<"IMPORTANT">>), None, None, None),
       Options(notification, Some(<<"labelAdded", "messageAdded">>), Some(<<"IMPORTANT">>),
               Some(<<"UNREAD">>), None, None),
       Options(notification, Some(<<"messageAdded", "labelRemoved">>), None,
               Some(<<"UNREAD">>), None, None),
       Options(notification, None, None, None, Some(<<"INBOX">>), Some(<<"SENT", "INBOX">>)),
       Options(notification, Some(<<"messageAdded">>), None, None,
               Some(<<"INBOX">>), Some(<<"SENT">>)) }

\* a notification whose message.data is not the base64 of a JSON text
Undecodable == [wellFormed |-> FALSE, emailAddress |-> "", historyId |-> 0]

InvokeOptions ==
  \E method \in Methods :
    \E notification \in {Undecodable}
          \cup [wellFormed : {TRUE}, emailAddress : {"user1"}, historyId : HistoryIds] :
      \E options \in ValidationChoices(notification) :
        Quiet /\ Invoke(1, method, options)

HistoryListOptions ==
  \E history \in OptionsPages, more \in BOOLEAN : HistoryList(1, history, more)

NextOptions ==
  \/ InvokeOptions
  \/ ReadFileNext
  \/ WatchDoneRetrieval
  \/ HistoryListOptions
  \/ HistoryListFailsNext
  \/ MessagesGetNext
  \/ MessagesGetFailsNext
  \/ AttachmentsGetNext
  \/ AttachmentsGetFailsNext
  \/ ReturnNext
  \/ WriteFile

SpecOptions == InitRetrieval /\ [][NextOptions]_vars

(***************************************************************************)
(* SpecUnawaited: two retrieval calls for one user, the second made once   *)
(* the first has resolved or rejected, whether or not the array the first  *)
(* handed to fs.writeFile has reached the file.  The promise of            *)
(* fs.writeFile is dropped: when the write fails no call learns of it.     *)
(***************************************************************************)
Finished(c) == call[c].pc \in {"resolved", "rejected"}

InvokeFirst ==
  \E method \in Methods, historyId \in HistoryIds :
    /\ \A d \in Calls : call[d].pc = "idle"
    /\ Len(pending) < MaxPending
    /\ Invoke(1, method, DefaultOptions([wellFormed |-> TRUE, emailAddress |-> "user1",
                                         historyId |-> historyId]))

InvokeSecond ==
  \E method \in Methods, historyId \in HistoryIds :
    /\ Finished(1)
    /\ Len(pending) < MaxPending
    /\ Invoke(2, method, DefaultOptions([wellFormed |-> TRUE, emailAddress |-> "user1",
                                         historyId |-> historyId]))

\* the write fails (the disk is full, the file is read-only): the file stays as it is
WriteFileFails ==
  /\ pending # <<>>
  /\ pending' = Tail(pending)
  /\ UNCHANGED <<api, file, call, pin, pout>>

ReturnFirst == call[2].pc = "idle" /\ Return(1)
ReturnSecond == Return(2)

NextUnawaited ==
  \/ InvokeFirst
  \/ InvokeSecond
  \/ \E c \in Calls : ReadFile(c)
  \/ \E c \in Calls : WatchDone(c, 200)
  \/ \E c \in Calls : WatchFails(c)
  \/ \E c \in Calls : \E history \in {None, Some(<<EntryAdded>>)} : HistoryList(c, history, FALSE)
  \/ \E c \in Calls : HistoryListFails(c)
  \/ \E c \in Calls : \E found \in BOOLEAN : MessagesGet(c, 1, found)
  \/ \E c \in Calls : MessagesGetFails(c)
  \/ \E c \in Calls : AttachmentsGet(c, 1)
  \/ \E c \in Calls : AttachmentsGetFails(c)
  \/ ReturnFirst
  \/ ReturnSecond
  \/ WriteFile
  \/ WriteFileFails

SpecUnawaited == InitRetrieval /\ [][NextUnawaited]_vars

(***************************************************************************)
(* SpecOverlap: two retrieval calls in flight at once on one Gmailpush,    *)
(* for the same user or for two users whose records are in the file.  A    *)
(* first call is for user1; each makes its call at any time, and the steps  *)
(* of the two calls interleave at their awaits.                            *)
(***************************************************************************)
OverlapHistoryIds == 1..(MaxHistoryId + 1)

OverlapNotifications ==
  [wellFormed : {TRUE}, emailAddress : Accounts, historyId : OverlapHistoryIds]

OverlapOptions(notification) ==
  { DefaultOptions(notification),
    Options(notification, Some(<<"messageDeleted">>), None, None, None, None) }

OverlapFile ==
  Some(<<PrevHistory("user1", 1, Some(100)), PrevHistory("user2", 1, Some(100))>>)

InitOverlap ==
  /\ api = InitialApi
  /\ file = OverlapFile
  /\ pending = <<>>
  /\ call = [c \in Calls |-> IdleCall]
  /\ pin = NoInput
  /\ pout = None

InvokeOverlap ==
  \E c \in Calls, notification \in OverlapNotifications :
    \E options \in OverlapOptions(notification) :
      /\ c = 1 => notification.emailAddress = "user1"
      /\ Invoke(c, "getMessages", options)

ReadFileOverlap == \E c \in Calls : ReadFile(c)
WatchDoneOverlap == \E c \in Calls : WatchDone(c, 200)
HistoryListOverlap ==
  \E c \in Calls, history \in {Some(<<EntryAdded>>), Some(<<EntryDeleted>>)} :
    HistoryList(c, history, FALSE)
MessagesGetOverlap == \E c \in Calls : MessagesGet(c, 1, TRUE)
AttachmentsGetOverlap == \E c \in Calls : AttachmentsGet(c, 1)

NextOverlap ==
  \/ InvokeOverlap
  \/ ReadFileOverlap
  \/ WatchDoneOverlap
  \/ HistoryListOverlap
  \/ MessagesGetOverlap
  \/ AttachmentsGetOverlap
  \/ WriteFile

SpecOverlap == InitOverlap /\ [][NextOverlap]_vars

(***************************************************************************)
(* What the properties below say of a call.                                *)
(***************************************************************************)
NotificationOf(c) == The(The(call[c].props).notification)

\* the record of emailAddress in a stored array, as find sees it
RecordOf(prevHistories, emailAddress) ==
  prevHistories[The(Find(prevHistories, emailAddress))]

\* the call read a file that holds a record of the notification's user
LoadedRecord(c) ==
  /\ call[c].loaded # None
  /\ The(call[c].loaded) # None
  /\ Find(The(The(call[c].loaded)), NotificationOf(c).emailAddress) # None

\* the prevHistoryId the call found in the file
LoadedPrevHistoryId(c) ==
  RecordOf(The(The(call[c].loaded)), NotificationOf(c).emailAddress).prevHistoryId

\* _initialize has returned
Initialized(c) == call[c].shouldProceed # None

\* the record of the notification's user in the array the call handed to fs.writeFile
WrittenRecord(c) == RecordOf(The(call[c].written), NotificationOf(c).emailAddress)

RequestsOf(c, methods) ==
  SelectSeq(call[c].requests, LAMBDA request : request.method \in methods)

\* C1: a cycle that found prevHistoryId p in the file and whose notification has
\* historyId h > p returns true ('continue'), writes h as the user's prevHistoryId
\* (the file holds it once the write is done), and every users.history.list request
\* that follows carries startHistoryId p.
C1_FreshCycle ==
  \A c \in Calls :
    (/\ LoadedRecord(c)
     /\ Initialized(c)
     /\ NotificationOf(c).historyId > LoadedPrevHistoryId(c))
    => /\ call[c].shouldProceed = Some(TRUE)
       /\ WrittenRecord(c).prevHistoryId = NotificationOf(c).historyId
       /\ pending = <<>> => file = call[c].written
       /\ api.startHistoryId = Some(LoadedPrevHistoryId(c))
       /\ call[c].pc = "history" =>
            call[c].requests[Len(call[c].requests)].method = "history.list"
       /\ \A i \in 1..Len(call[c].requests) :
            call[c].requests[i].method = "history.list" =>
              /\ call[c].requests[i].startHistoryId = Some(LoadedPrevHistoryId(c))
              /\ call[c].requests[i].userId = NotificationOf(c).emailAddress

\* a new notification, the second page of the change log being requested
C1_Witness ==
  \E c \in Calls :
    /\ LoadedRecord(c)
    /\ Initialized(c)
    /\ NotificationOf(c).historyId > LoadedPrevHistoryId(c)
    /\ call[c].pc = "history"
    /\ Len(RequestsOf(c, {"history.list"})) = 2
    /\ pending = <<>>

\* C2: a call that found prevHistoryId p in the file and whose notification has
\* historyId h <= p resolves with an empty list, writes p back as the user's
\* prevHistoryId, and makes no history.list, messages.get or attachments.get request.
C2_StaleCycle ==
  \A c \in Calls :
    (/\ LoadedRecord(c)
     /\ Initialized(c)
     /\ NotificationOf(c).historyId <= LoadedPrevHistoryId(c))
    => /\ call[c].pc = "resolved"
       /\ call[c].result = Some(<<>>)
       /\ WrittenRecord(c).prevHistoryId = LoadedPrevHistoryId(c)
       /\ pending = <<>> => file = call[c].written
       /\ RequestsOf(c, {"history.list", "messages.get", "attachments.get"}) = <<>>

\* a notification with the historyId the file already holds, its write done
C2_Witness ==
  \E c \in Calls :
    /\ LoadedRecord(c)
    /\ Initialized(c)
    /\ NotificationOf(c).historyId = LoadedPrevHistoryId(c)
    /\ call[c].pc = "resolved"
    /\ pending = <<>>

\* the call read the store and found no record of the notification's user: the file
\* does not exist, or it holds other users' records only
LoadedNoRecord(c) ==
  /\ call[c].loaded # None
  /\ \/ The(call[c].loaded) = None
     \/ Find(The(The(call[c].loaded)), NotificationOf(c).emailAddress) = None

\* the number of records of emailAddress in an array
RecordsOf(prevHistories, emailAddress) ==
  Cardinality({i \in 1..Len(prevHistories) : prevHistories[i].emailAddress = emailAddress})

\* C3: the first retrieval call for a user who has no record in the store, the file
\* absent or holding other users' records only, resolves with an empty list (unless
\* the provider or the file system failed) and writes an array with exactly one
\* record of the user, its prevHistoryId the notification's historyId.
C3_FirstCallSeedsRecord ==
  \A c \in Calls :
    (/\ LoadedNoRecord(c)
     /\ call[c].pc \in {"resolved", "rejected"}
     /\ call[c].error \notin {Some("users.watch failed"), Some("EACCES")})
    => /\ call[c].pc = "resolved"
       /\ call[c].result = Some(<<>>)
       /\ call[c].written # None
       /\ RecordsOf(The(call[c].written), NotificationOf(c).emailAddress) = 1
       /\ WrittenRecord(c).prevHistoryId = NotificationOf(c).historyId

\* C4: no step lowers the prevHistoryId the file holds for a user; and the array a
\* cycle writes holds, for the notification's user, the prevHistoryId the cycle found
\* in the file, or the notification's historyId when that is strictly greater.
C4_FileStep(emailAddress) ==
  (/\ file # None
   /\ file' # None
   /\ Find(The(file), emailAddress) # None
   /\ Find(The(file'), emailAddress) # None)
  => RecordOf(The(file'), emailAddress).prevHistoryId
       >= RecordOf(The(file), emailAddress).prevHistoryId

C4_Cycle ==
  \A c \in Calls :
    (LoadedRecord(c) /\ Initialized(c))
    => \/ WrittenRecord(c).prevHistoryId = LoadedPrevHistoryId(c)
       \/ /\ NotificationOf(c).historyId > LoadedPrevHistoryId(c)
          /\ WrittenRecord(c).prevHistoryId = NotificationOf(c).historyId

RECURSIVE AllEntries(_)
AllEntries(pages) ==
  IF pages = <<>> THEN <<>>
  ELSE (IF Head(pages) = None THEN <<>> ELSE The(Head(pages))) \o AllEntries(Tail(pages))

\* C5: _getHistory returns the entries of all the pages the provider answered with,
\* in page order: none is missing and none is repeated.
C5_GetHistoryAllPages ==
  \A c \in Calls :
    call[c].fetchedHistory # None =>
      The(call[c].fetchedHistory) = AllEntries(call[c].pages)

\* the filters a call's own options ask for: what this._api would hold had no
\* earlier call been made on the instance
OptionsAlone(props) ==
  [SetHistoryTypes(InitialApi, props) EXCEPT
     !.addedLabelIds = props.addedLabelIds,
     !.removedLabelIds = props.removedLabelIds,
     !.withLabelIds = props.withLabelIds,
     !.withoutLabelIds = props.withoutLabelIds]

\* the id and historyType of each message of a list
Summary(messages) ==
  [n \in 1..Len(messages) |->
     [id |-> messages[n].id, historyType |-> messages[n].historyType]]

\* C7: a call filters by the options it is given and by no other: the entries it
\* keeps and the messages it resolves with are those its own options select from
\* the change log and from the messages fetched, whatever earlier calls configured.
C7_OmittedOptionsDoNotFilter ==
  \A c \in Calls :
    call[c].fetchedHistory # None =>
      LET own == OptionsAlone(The(call[c].props))
          parsed == [n \in 1..Len(call[c].fetched) |-> The(call[c].fetched[n])]
          kept == SelectSeq(parsed, LAMBDA message : _filterMessage(own, message))
      IN /\ call[c].history = _filterHistory(own, The(call[c].fetchedHistory))
         /\ call[c].pc = "resolved" =>
              Summary(The(call[c].result)) =
                Summary(IF call[c].method = "getNewMessage"
                          THEN SubSeq(kept, 1, IF Len(kept) > 0 THEN 1 ELSE 0)
                          ELSE kept)

(***************************************************************************)
(* SpecFilterHistory: _filterHistory applied to a change log of up to      *)
(* MaxLog entries, under any historyTypes, addedLabelIds and               *)
(* removedLabelIds this._api can hold.                                     *)
(***************************************************************************)
SeqsUpTo(S, n) == UNION {[1..m -> S] : m \in 0..n}

EntryStarred == HistoryEntry(4, <<"m4">>, "labelsAdded", <<[labelIds |-> <<"STARRED">>]>>)
EntryRead == HistoryEntry(5, <<"m5">>, "labelsRemoved", <<[labelIds |-> <<"UNREAD">>]>>)
EntryUnstarred == HistoryEntry(6, <<"m4", "m5">>, "labelsRemoved",
                    <<[labelIds |-> <<"STARRED">>], [labelIds |-> <<"IMPORTANT", "UNREAD">>]>>)
\* an entry of none of the four kinds
EntryOther == HistoryEntry(7, <<"m6">>, "", <<>>)
FilterEntries == {EntryAdded, EntryDeleted, EntryLabelAdded, EntryStarred, EntryRead,
                  EntryUnstarred, EntryOther, EntryRelabelled}

HistoryTypeChoices ==
  { VALID_HISTORY_TYPES, <<"labelAdded">>, <<"labelRemoved">>,
    <<"labelRemoved", "labelAdded">>, <<"messageAdded", "labelAdded">>,
    <<"labelAdded", "labelAdded">> }

LabelIdChoices ==
  { None, Some(<<>>), Some(<<"IMPORTANT">>), Some(<<"UNREAD", "IMPORTANT">>) }

InitFilterHistory ==
  /\ api = InitialApi
  /\ file = None
  /\ pending = <<>>
  /\ call = [c \in Calls |-> IdleCall]
  /\ pin \in [function : {"_filterHistory"},
              api : {[InitialApi EXCEPT !.historyTypes = Some(historyTypes),
                                        !.addedLabelIds = addedLabelIds,
                                        !.removedLabelIds = removedLabelIds] :
                       historyTypes \in HistoryTypeChoices,
                       addedLabelIds \in LabelIdChoices,
                       removedLabelIds \in LabelIdChoices},
              history : SeqsUpTo(FilterEntries, MaxLog)]
  /\ pout = None

ApplyFilterHistory ==
  /\ pin.function = "_filterHistory"
  /\ pout = None
  /\ pout' = Some(_filterHistory(pin.api, pin.history))
  /\ UNCHANGED <<api, file, pending, call, pin>>

SpecFilterHistory == InitFilterHistory /\ [][ApplyFilterHistory]_vars

\* some label of the list has one of the ids
Intersects(labels, ids) ==
  \E i \in 1..Len(labels), j \in 1..Len(ids) : Includes(labels[i].labelIds, ids[j])

\* the entries the first loop of _filterHistory keeps of the input
Survivors == FilteredWithHistoryTypes(The(pin.api.historyTypes), pin.history)

\* C8 as stated: of the entries that survived the kind pass, _filterHistory keeps
\* those that have a labelsAdded with an id of addedLabelIds when addedLabelIds is
\* set, and a labelsRemoved with an id of removedLabelIds when removedLabelIds is
\* set; an entry without the property of a filter that is set is dropped.
C8_DropsEntriesWithoutDelta ==
  pout # None =>
    The(pout) = SelectSeq(Survivors, LAMBDA historyEntry :
      /\ pin.api.addedLabelIds # None =>
           /\ historyEntry.labelsAdded # None
           /\ Intersects(The(historyEntry.labelsAdded), The(pin.api.addedLabelIds))
      /\ pin.api.removedLabelIds # None =>
           /\ historyEntry.labelsRemoved # None
           /\ Intersects(The(historyEntry.labelsRemoved), The(pin.api.removedLabelIds)))

\* C8, amended: of the entries that survived the kind pass, _filterHistory drops
\* those that have a labelsAdded with no id of addedLabelIds when addedLabelIds is
\* set, and those that have a labelsRemoved with no id of removedLabelIds when
\* removedLabelIds is set; it keeps every other entry, among them the entries
\* without the property of a filter that is set.
C8_LabelDeltaPass ==
  pout # None =>
    The(pout) = SelectSeq(Survivors, LAMBDA historyEntry :
      /\ (pin.api.addedLabelIds # None /\ historyEntry.labelsAdded # None) =>
           Intersects(The(historyEntry.labelsAdded), The(pin.api.addedLabelIds))
      /\ (pin.api.removedLabelIds # None /\ historyEntry.labelsRemoved # None) =>
           Intersects(The(historyEntry.labelsRemoved), The(pin.api.removedLabelIds)))

\* both filters set; an entry without labelsAdded is kept and an entry whose
\* labelsAdded has none of the ids is dropped
C8_Witness ==
  /\ pout # None
  /\ pin.api.addedLabelIds # None
  /\ pin.api.removedLabelIds # None
  /\ \E i \in 1..Len(The(pout)) : The(pout)[i].labelsAdded = None
  /\ \E i \in 1..Len(Survivors) :
       /\ Survivors[i].labelsAdded # None
       /\ ~Includes(The(pout), Survivors[i])

\* C9: with historyTypes = ['labelAdded'], addedLabelIds set and removedLabelIds not
\* set, _filterHistory returns exactly the entries of the log that have a labelsAdded
\* with at least one id of addedLabelIds, in the order of the log.
C9_LabelAddedOnly ==
  (/\ pout # None
   /\ pin.api.historyTypes = Some(<<"labelAdded">>)
   /\ pin.api.addedLabelIds # None
   /\ pin.api.removedLabelIds = None)
  => The(pout) = SelectSeq(pin.history, LAMBDA historyEntry :
       /\ historyEntry.labelsAdded # None
       /\ Intersects(The(historyEntry.labelsAdded), The(pin.api.addedLabelIds)))

\* a log with an entry of another kind and an entry whose labelsAdded has one of two
\* ids asked for: the second is returned, the first is not
C9_Witness ==
  /\ pout # None
  /\ pin.api.historyTypes = Some(<<"labelAdded">>)
  /\ pin.api.addedLabelIds = Some(<<"UNREAD", "IMPORTANT">>)
  /\ pin.api.removedLabelIds = None
  /\ \E i \in 1..Len(pin.history) : pin.history[i].labelsAdded = None
  /\ Len(The(pout)) = 1
  /\ Len(pin.history) = 2

(***************************************************************************)
(* SpecFilterMessage: _filterMessage applied to a message, under any       *)
(* withLabelIds and withoutLabelIds of up to MaxLabels ids.                *)
(***************************************************************************)
LabelIds == {"INBOX", "SENT", "UNREAD"}

LabelIdLists == {None} \cup {Some(ids) : ids \in SeqsUpTo(LabelIds, MaxLabels)}

InitFilterMessage ==
  /\ api = InitialApi
  /\ file = None
  /\ pending = <<>>
  /\ call = [c \in Calls |-> IdleCall]
  /\ pin \in [function : {"_filterMessage"},
              api : {[InitialApi EXCEPT !.withLabelIds = withLabelIds,
                                        !.withoutLabelIds = withoutLabelIds] :
                       withLabelIds \in LabelIdLists, withoutLabelIds \in LabelIdLists},
              message : {RawMessage("m1", labelIds, None) : labelIds \in LabelIdLists}]
  /\ pout = None

ApplyFilterMessage ==
  /\ pin.function = "_filterMessage"
  /\ pout = None
  /\ pout' = Some([throws |-> FilterMessageThrows(pin.api),
                   value |-> IF FilterMessageThrows(pin.api) THEN FALSE
                             ELSE _filterMessage(pin.api, pin.message)])
  /\ UNCHANGED <<api, file, pending, call, pin>>

SpecFilterMessage == InitFilterMessage /\ [][ApplyFilterMessage]_vars

\* C10: of a message that has labelIds, with withLabelIds and withoutLabelIds sharing
\* no id, _filterMessage returns true exactly when (withLabelIds is not set or one of
\* the message's labelIds is in it) and (withoutLabelIds is not set or none of the
\* message's labelIds is in it); it does not throw.
C10_FilterMessage ==
  (/\ pout # None
   /\ pin.message.labelIds # None
   /\ \/ pin.api.withLabelIds = None
      \/ pin.api.withoutLabelIds = None
      \/ Range(The(pin.api.withLabelIds)) \cap Range(The(pin.api.withoutLabelIds)) = {})
  => /\ ~The(pout).throws
     /\ The(pout).value =
          (/\ \/ pin.api.withLabelIds = None
              \/ Range(The(pin.message.labelIds)) \cap Range(The(pin.api.withLabelIds)) # {}
           /\ \/ pin.api.withoutLabelIds = None
              \/ Range(The(pin.message.labelIds)) \cap Range(The(pin.api.withoutLabelIds)) = {})

\* a message with a label of withLabelIds and one of the two withoutLabelIds: dropped
C10_Witness ==
  /\ pout # None
  /\ pin.message.labelIds = Some(<<"INBOX", "SENT">>)
  /\ pin.api.withLabelIds = Some(<<"INBOX">>)
  /\ pin.api.withoutLabelIds = Some(<<"UNREAD", "SENT">>)
  /\ The(pout) = [throws |-> FALSE, value |-> FALSE]

\* C11: a message without labelIds (deleted or not found) is never kept by
\* _filterMessage when withLabelIds is set, and is kept, without an error, when
\* withLabelIds is not set, whatever withoutLabelIds is.
C11_NoLabelIds ==
  (pout # None /\ pin.message.labelIds = None)
  => /\ pin.api.withLabelIds # None => ~(~The(pout).throws /\ The(pout).value)
     /\ (pin.api.withLabelIds # None /\ ~The(pout).throws) => The(pout).value = FALSE
     /\ pin.api.withLabelIds = None => (~The(pout).throws /\ The(pout).value = TRUE)

\* a message without labelIds dropped under withLabelIds = ['INBOX'] and an exclusion
C11_Witness ==
  /\ pout # None
  /\ pin.message.labelIds = None
  /\ pin.api.withLabelIds = Some(<<"INBOX">>)
  /\ pin.api.withoutLabelIds = Some(<<"SENT">>)
  /\ The(pout) = [throws |-> FALSE, value |-> FALSE]

(***************************************************************************)
(* The options a call was made with, and the calls that did no I/O.        *)
(***************************************************************************)
OptionsOf(c) == The(call[c].options)

Started(c) == call[c].pc # "idle"

\* the errors _getPropsFromOptions and _setApiPropertiesWithProps throw by design
ConfigurationErrors ==
  { "Options must have", "Options must be an object",
    "Options may only contain the following", "Options must have the following",
    "historyTypes option may only contain the following",
    "addedLabelIds option should be used with labelAdded historyType",
    "removedLabelIds option should be used with labelRemoved historyType" }

\* the file was not read, nothing was handed to fs.writeFile, no request was made
NoIO(c) ==
  /\ call[c].requests = <<>>
  /\ call[c].loaded = None
  /\ call[c].written = None
  /\ pending = <<>>

\* options absent or not an object, with a key the method does not allow, without
\* notification or token, or with a historyTypes element that is not a history type
InvalidOptions(c) ==
  LET options == OptionsOf(c)
  IN \/ options.kind # "object"
     \/ options.unexpected
     \/ /\ call[c].method = "getNewMessage"
        /\ \E k \in RetrievalOptional : options[k] # None
     \/ options.notification = None
     \/ options.token = None
     \/ /\ options.historyTypes # None
        /\ Range(The(options.historyTypes)) \ Range(VALID_HISTORY_TYPES) # {}

Overlapping(props) ==
  /\ props.withLabelIds # None
  /\ props.withoutLabelIds # None
  /\ Range(The(props.withLabelIds)) \cap Range(The(props.withoutLabelIds)) # {}

\* C12: a call whose withLabelIds and withoutLabelIds share an id, its options
\* otherwise valid and its notification decodable, is rejected with 'withLabelIds
\* and withoutLabelIds should not have the same labelId' without having read the
\* file, written it or made a request.
C12_OverlapFailsBeforeIO ==
  \A c \in Calls :
    (/\ Started(c)
     /\ ~InvalidOptions(c)
     /\ NotificationOf(c).wellFormed
     /\ Overlapping(The(call[c].props)))
    => /\ call[c].pc = "rejected"
       /\ call[c].error =
            Some("withLabelIds and withoutLabelIds should not have the same labelId")
       /\ NoIO(c)

\* C13: a call with invalid options is rejected with a configuration error, without
\* having read the file, written it or made a request.
C13_InvalidOptionsNoIO ==
  \A c \in Calls :
    (Started(c) /\ InvalidOptions(c))
    => /\ call[c].pc = "rejected"
       /\ call[c].error # None
       /\ The(call[c].error) \in ConfigurationErrors
       /\ call[c].result = None
       /\ NoIO(c)

\* a call with a key it does not allow rejected on an instance that has served a call
C13_Witness ==
  \E c \in Calls :
    /\ call[c].pc = "rejected"
    /\ OptionsOf(c).unexpected
    /\ call[c].error = Some("Options may only contain the following")
    /\ api.startHistoryId # None
    /\ NoIO(c)

EffectiveHistoryTypes(props) ==
  IF props.historyTypes = None THEN VALID_HISTORY_TYPES ELSE The(props.historyTypes)

\* the call got past _getPropsFromOptions and _setApiPropertiesWithProps
Accepted(c) ==
  call[c].error # None => The(call[c].error) \notin (ConfigurationErrors \cup {"TypeError"})

\* C14: a call with addedLabelIds, its options otherwise valid, is accepted when
\* labelAdded is in its historyTypes, or its historyTypes is omitted, and is otherwise
\* rejected with 'addedLabelIds option should be used with labelAdded historyType';
\* the same for removedLabelIds and labelRemoved.
C14_LabelIdsNeedTheirType ==
  \A c \in Calls :
    (/\ Started(c)
     /\ ~InvalidOptions(c)
     /\ call[c].method # "getNewMessage")
    => LET props == The(call[c].props)
           added == props.addedLabelIds = None
                      \/ Includes(EffectiveHistoryTypes(props), "labelAdded")
           removed == props.removedLabelIds = None
                        \/ Includes(EffectiveHistoryTypes(props), "labelRemoved")
       IN /\ (added /\ removed) => Accepted(c)
          /\ ~added =>
               /\ call[c].pc = "rejected"
               /\ call[c].error =
                    Some("addedLabelIds option should be used with labelAdded historyType")
          /\ (added /\ ~removed) =>
               /\ call[c].pc = "rejected"
               /\ call[c].error =
                    Some("removedLabelIds option should be used with labelRemoved historyType")

\* what a call returns of a message the provider answered 'Not Found' for
NotFoundRecord(messageId, historyEntry) ==
  [id |-> messageId, attachments |-> Some(<<>>), notFound |-> TRUE,
   historyType |-> Some(HistoryTypeOf(historyEntry)),
   labelIds |-> None, payload |-> None, subject |-> None, date |-> None,
   bodyText |-> None, bodyHtml |-> None]

\* C15: a 'Not Found' answer to users.messages.get for message m does not reject the
\* call: m is parsed to a record of id, attachments = [], notFound = true and the
\* historyType of its entry, and nothing else; a call that resolves while
\* this._api.withLabelIds is not set returns that record; any other failure of
\* users.messages.get rejects the call.
C15_NotFound ==
  \A c \in Calls :
    /\ \A k \in 1..Len(call[c].fetched) :
         (call[c].fetched[k] # None /\ The(call[c].fetched[k]).notFound)
         => LET position == Positions(call[c].history, 1)[k]
                historyEntry == call[c].history[position.entry]
                record == NotFoundRecord(historyEntry.messages[position.message],
                                         historyEntry)
            IN /\ The(call[c].fetched[k]) = record
               /\ call[c].error # Some("Not Found")
               /\ (call[c].pc = "resolved" /\ api.withLabelIds = None)
                    => Includes(The(call[c].result), record)
    /\ call[c].error = Some("users.messages.get failed")
         => call[c].pc = "rejected" /\ call[c].result = None

\* getMessages resolved with the record of a message not found and with a message
\* that was found, its attachment fetched
C15_Witness ==
  \E c \in Calls :
    /\ call[c].pc = "resolved"
    /\ call[c].method = "getMessages"
    /\ api.withLabelIds = None
    /\ \E i, j \in 1..Len(The(call[c].result)) :
         /\ The(call[c].result)[i].notFound
         /\ The(call[c].result)[i].historyType = Some("messageDeleted")
         /\ ~The(call[c].result)[j].notFound
         /\ The(call[c].result)[j].attachments # Some(<<>>)

\* the (message id, attachment id) of every attachment of every message, in order
PairsOf(messages) ==
  Flatten([i \in 1..Len(messages) |->
    [j \in 1..Len(The(messages[i].attachments)) |->
       <<Some(messages[i].id), Some(The(messages[i].attachments)[j].attachmentId)>>]])

AttachmentPairsRequested(c) ==
  LET requests == RequestsOf(c, {"attachments.get"})
  IN [k \in 1..Len(requests) |-> <<requests[k].messageId, requests[k].id>>]

HasData(messages) ==
  \A i \in 1..Len(messages) :
    \A j \in 1..Len(The(messages[i].attachments)) :
      The(messages[i].attachments)[j].data # None

HasNoData(messages) ==
  \A i \in 1..Len(messages) :
    \A j \in 1..Len(The(messages[i].attachments)) :
      The(messages[i].attachments)[j].data = None

\* C16: when getMessages resolves every attachment of every message returned has
\* data; its attachments.get requests are one per attachment of each message that
\* passed _filterMessage, made after every other request of the call and not before
\* the messages were filtered; getMessagesWithoutAttachment makes no attachments.get
\* request and returns no attachment with data.
C16_Attachments ==
  \A c \in Calls :
    /\ call[c].method = "getMessages" =>
         /\ call[c].pc = "resolved" =>
              /\ HasData(The(call[c].result))
              /\ AttachmentPairsRequested(c) = PairsOf(The(call[c].result))
         /\ call[c].pc = "attachments" =>
              /\ AttachmentPairsRequested(c) = PairsOf(call[c].messages)
              /\ \A i \in 1..Len(call[c].messages) : _filterMessage(api, call[c].messages[i])
         /\ call[c].pc \in {"readFile", "watch", "history", "messages"} =>
              AttachmentPairsRequested(c) = <<>>
         /\ \A i, j \in 1..Len(call[c].requests) :
              (i < j /\ call[c].requests[i].method = "attachments.get")
              => call[c].requests[j].method = "attachments.get"
    /\ call[c].method = "getMessagesWithoutAttachment" =>
         /\ AttachmentPairsRequested(c) = <<>>
         /\ call[c].pc = "resolved" => HasNoData(The(call[c].result))

\* getMessages resolved with two messages, an attachment each
C16_Witness ==
  \E c \in Calls :
    /\ call[c].pc = "resolved"
    /\ call[c].method = "getMessages"
    /\ Len(The(call[c].result)) = 2
    /\ Len(PairsOf(The(call[c].result))) = 2
    /\ Len(RequestsOf(c, {"messages.get"})) = 2

\* this._api as getMessages leaves it when it is given historyTypes = ['messageAdded'],
\* withLabelIds = ['INBOX'] and withoutLabelIds = ['SENT']
PinnedApi(a) ==
  [a EXCEPT !.historyTypes = Some(<<"messageAdded">>),
            !.withLabelIds = Some(<<"INBOX">>),
            !.withoutLabelIds = Some(<<"SENT">>)]

IsPinned(props) ==
  /\ props.historyTypes = Some(<<"messageAdded">>)
  /\ props.withLabelIds = Some(<<"INBOX">>)
  /\ props.withoutLabelIds = Some(<<"SENT">>)
  /\ props.addedLabelIds = None
  /\ props.removedLabelIds = None

WithData(messages) ==
  [i \in 1..Len(messages) |->
     [messages[i] EXCEPT !.attachments =
        Some([j \in 1..Len(The(@)) |-> [The(@)[j] EXCEPT !.data = Some("Buffer")]])]]

\* what getMessages returns under the three options, of the messages the call fetched
PinnedResult(c) ==
  WithData(SelectSeq([n \in 1..Len(call[c].fetched) |-> The(call[c].fetched[n])],
                     LAMBDA message : _filterMessage(PinnedApi(api), message)))

\* C17: on the same instance, file and provider answers, getNewMessage requests the
\* messages getMessages requests under historyTypes = ['messageAdded'], withLabelIds =
\* ['INBOX'], withoutLabelIds = ['SENT'], and when it resolves its result is the first
\* message of the list getMessages resolves with, or null (no message) when that list
\* is empty.
C17_GetNewMessage ==
  \A c \in Calls :
    (/\ call[c].fetchedHistory # None
     /\ \/ call[c].method = "getNewMessage"
        \/ call[c].method = "getMessages" /\ IsPinned(The(call[c].props)))
    => /\ call[c].history = _filterHistory(PinnedApi(api), The(call[c].fetchedHistory))
       /\ call[c].pc = "resolved" =>
            The(call[c].result) =
              IF call[c].method = "getMessages" THEN PinnedResult(c)
              ELSE SubSeq(PinnedResult(c), 1, IF PinnedResult(c) = <<>> THEN 0 ELSE 1)

\* getNewMessage resolved with the second of three messages added and with its
\* attachment's data: the first one fetched has the SENT label, and getMessages
\* returns the second and the third
C17_Witness ==
  \E c \in Calls :
    /\ call[c].method = "getNewMessage"
    /\ call[c].pc = "resolved"
    /\ Len(call[c].fetched) = 3
    /\ The(call[c].fetched[1]).labelIds # None
    /\ Includes(The(The(call[c].fetched[1]).labelIds), "SENT")
    /\ Len(PinnedResult(c)) = 2
    /\ Len(The(call[c].result)) = 1
    /\ The(call[c].result)[1].id = "m1"
    /\ HasData(The(call[c].result))

\* the entry has one of messagesAdded, messagesDeleted, labelsAdded, labelsRemoved
Typed(historyEntry) ==
  \E property \in {"messagesAdded", "messagesDeleted", "labelsAdded", "labelsRemoved"} :
    historyEntry[property] # None

\* C19: when the change log a call fetched on a new notification has no entry with
\* messagesAdded, messagesDeleted, labelsAdded or labelsRemoved (its pages empty or
\* without `history` included), the call resolves with an empty list, without an
\* error and without a users.messages.get or attachments.get request.
C19_NothingToFetch ==
  \A c \in Calls :
    (/\ call[c].shouldProceed = Some(TRUE)
     /\ call[c].fetchedHistory # None
     /\ \A i \in 1..Len(AllEntries(call[c].pages)) : ~Typed(AllEntries(call[c].pages)[i]))
    => /\ call[c].pc = "resolved"
       /\ call[c].result = Some(<<>>)
       /\ call[c].error = None
       /\ RequestsOf(c, {"messages.get", "attachments.get"}) = <<>>

\* a change log of two pages, the first without `history`, the second with one entry
\* of none of the four types
C19_Witness ==
  \E c \in Calls :
    /\ call[c].shouldProceed = Some(TRUE)
    /\ call[c].pages = <<None, Some(<<EntryUntyped>>)>>
    /\ call[c].pc = "resolved"
    /\ call[c].result = Some(<<>>)

ProviderFailures ==
  { "users.history.list failed", "users.messages.get failed",
    "users.messages.attachments.get failed" }

\* C18: a call is resolved with a result and no error, or rejected with an error and
\* no result, never both, and has neither while it runs; a call in which a
\* users.history.list, users.messages.get or attachments.get request failed is
\* rejected, and the messages it had are not handed to the caller.
C18_ResultOrRejection ==
  \A c \in Calls :
    /\ call[c].pc = "resolved" => (call[c].result # None /\ call[c].error = None)
    /\ call[c].pc = "rejected" => (call[c].error # None /\ call[c].result = None)
    /\ call[c].pc \notin {"resolved", "rejected"} =>
         (call[c].result = None /\ call[c].error = None)
    /\ (call[c].error # None /\ The(call[c].error) \in ProviderFailures) =>
         (call[c].pc = "rejected" /\ call[c].result = None)

\* getMessages rejected by a failed attachments.get after another attachment's data
\* had arrived
C18_Witness ==
  \E c \in Calls :
    /\ call[c].pc = "rejected"
    /\ call[c].error = Some("users.messages.attachments.get failed")
    /\ call[c].attached # {}
    /\ Len(call[c].messages) = 2
    /\ call[c].result = None

\* C20: a call made once an earlier call has returned finds in the file the array the
\* earlier call's cycle handed to fs.writeFile: the earlier cycle's prevHistoryId and
\* watchExpiration.
C20_StoreHoldsReturnedCycle ==
  (/\ Initialized(1)
   /\ Finished(1)
   /\ call[2].loaded # None)
  => The(call[2].loaded) = call[1].written

AtMostOneRecordEach(prevHistories) ==
  \A emailAddress \in Accounts : RecordsOf(prevHistories, emailAddress) <= 1

\* C21: this._api.prevHistories, every array handed to fs.writeFile and the file hold
\* at most one record per emailAddress.
C21_OneRecordPerAccount ==
  /\ AtMostOneRecordEach(api.prevHistories)
  /\ \A i \in 1..Len(pending) : AtMostOneRecordEach(pending[i])
  /\ file # None => AtMostOneRecordEach(The(file))

\* C24: a cycle that found no file writes an array of exactly one record, the one
\* seeded for the notification's user with the notification's historyId, whatever
\* this._api.prevHistories held before.
C24_AbsentStoreSeedsOneRecord ==
  \A c \in Calls :
    (call[c].loaded = Some(None) /\ Initialized(c))
    => /\ Len(The(call[c].written)) = 1
       /\ The(call[c].written)[1].emailAddress = NotificationOf(c).emailAddress
       /\ The(call[c].written)[1].prevHistoryId = NotificationOf(c).historyId

\* C23: a call whose users.watch request failed is rejected with that error; it has
\* handed nothing to fs.writeFile, the file is as the call read it, and it has made no
\* users.history.list request.
C23_WatchFailure ==
  \A c \in Calls :
    call[c].error = Some("users.watch failed")
    => /\ call[c].pc = "rejected"
       /\ call[c].result = None
       /\ call[c].written = None
       /\ pending = <<>>
       /\ Some(file) = call[c].loaded
       /\ RequestsOf(c, {"history.list", "messages.get", "attachments.get"}) = <<>>

\* users.watch failed in a call with a new notification for a user the file has
C23_Witness ==
  \E c \in Calls :
    /\ call[c].error = Some("users.watch failed")
    /\ LoadedRecord(c)
    /\ NotificationOf(c).historyId > LoadedPrevHistoryId(c)
    /\ file = The(call[c].loaded)

(***************************************************************************)
(* _parseEmailAddressHeader.  A header is the sequence of its characters.  *)
(* Its regular expression is an optional name (any characters, greedy)    *)
(* followed by a white space, then an optional "<", the address (one or    *)
(* more characters, "@", one or more characters other than ">") and an     *)
(* optional ">".  It is matched as String.prototype.match does: at the     *)
(* leftmost start that succeeds, each greedy quantifier taking the most it *)
(* can for the rest to succeed.  No header of the model has a line         *)
(* terminator, so the dot is any character.                                *)
(***************************************************************************)
Max(S) == CHOOSE n \in S : \A m \in S : m <= n

Min(S) == CHOOSE n \in S : \A m \in S : n <= m

IsWhiteSpace(char) == char = " "

\* [^>]+ from position p: the position of its last character
RunEnd(header, p) ==
  Max({r \in p..Len(header) : \A j \in p..r : header[j] # ">"})

\* (.+@[^>]+) from position q: the group it captures, as [from, to]
GroupAt(header, q) ==
  LET ats == {i \in (q + 1)..(Len(header) - 1) : header[i] = "@" /\ header[i + 1] # ">"}
  IN IF ats = {} THEN None
     ELSE Some([from |-> q, to |-> RunEnd(header, Max(ats) + 1)])

\* (?:<?(.+@[^>]+)>?) from position p
RestAt(header, p) ==
  IF p <= Len(header) /\ header[p] = "<" /\ GroupAt(header, p + 1) # None
    THEN GroupAt(header, p + 1)
    ELSE GroupAt(header, p)

\* the whole expression from position s: the two groups, or None
MatchAt(header, s) ==
  LET ends == {e \in (s - 1)..(Len(header) - 1) :
                 IsWhiteSpace(header[e + 1]) /\ RestAt(header, e + 2) # None}
  IN IF ends # {}
       THEN Some([name |-> Some([from |-> s, to |-> Max(ends)]),
                  address |-> The(RestAt(header, Max(ends) + 2))])
     ELSE IF RestAt(header, s) # None
       THEN Some([name |-> None, address |-> The(RestAt(header, s))])
     ELSE None

\* emailAddressHeader.match(...)
Match(header) ==
  LET starts == {s \in 1..(Len(header) + 1) : MatchAt(header, s) # None}
  IN IF starts = {} THEN None ELSE MatchAt(header, Min(starts))

\* a parser that gives up on a header that does not match
ParseHeaderWithoutFallback(emailAddressHeader) ==
  LET parsedHeader == Match(emailAddressHeader)
  IN IF parsedHeader # None
       THEN LET group1 == The(parsedHeader).name
                group2 == The(parsedHeader).address
                address == SubSeq(emailAddressHeader, group2.from, group2.to)
            IN [name |-> IF group1 # None /\ The(group1).to >= The(group1).from
                           THEN SubSeq(emailAddressHeader, The(group1).from, The(group1).to)
                           ELSE address,
                address |-> address]
       ELSE [name |-> <<>>, address |-> <<>>]

_parseEmailAddressHeader(emailAddressHeader) ==
  LET parsedHeader == Match(emailAddressHeader)
  IN IF parsedHeader # None
       THEN LET group1 == The(parsedHeader).name
                group2 == The(parsedHeader).address
                address == SubSeq(emailAddressHeader, group2.from, group2.to)
            IN [name |-> IF group1 # None /\ The(group1).to >= The(group1).from
                           THEN SubSeq(emailAddressHeader, The(group1).from, The(group1).to)
                           ELSE address,
                address |-> address]
       ELSE [name |-> emailAddressHeader, address |-> emailAddressHeader]

(***************************************************************************)
(* SpecParseHeader: _parseEmailAddressHeader applied to a header of up to  *)
(* MaxHeader characters, and to the two headers of the README.             *)
(***************************************************************************)
HeaderChars == {"u", "@", "<", ">", " "}

\* 'user1 <user1@gmail.com>'
HeaderUser1 ==
  <<"u", "s", "e", "r", "1", " ", "<", "u", "s", "e", "r", "1", "@", "g",
    "m", "a", "i", "l", ".", "c", "o", "m", ">">>

\* 'user2@', a header cut short
HeaderUser2Truncated ==
  <<"u", "s", "e", "r", "2", "@">>

Headers == SeqsUpTo(HeaderChars, MaxHeader) \cup {HeaderUser1, HeaderUser2Truncated}

InitParseHeader ==
  /\ api = InitialApi
  /\ file = None
  /\ pending = <<>>
  /\ call = [c \in Calls |-> IdleCall]
  /\ pin \in [function : {"_parseEmailAddressHeader"}, emailAddressHeader : Headers]
  /\ pout = None

ApplyParseHeader ==
  /\ pin.function = "_parseEmailAddressHeader"
  /\ pout = None
  /\ pout' = Some(_parseEmailAddressHeader(pin.emailAddressHeader))
  /\ UNCHANGED <<api, file, pending, call, pin>>

SpecParseHeader == InitParseHeader /\ [][ApplyParseHeader]_vars

\* the header has an "@" with a character before it and, after it, a character that
\* is not ">"
HasAddress(header) ==
  \E i \in 2..(Len(header) - 1) : header[i] = "@" /\ header[i + 1] # ">"

\* C22: _parseEmailAddressHeader returns, of a header that has an address, the address
\* (a part of the header with an "@" inside, no ">" after that "@", ended by ">" or by
\* the end of the header) and as name the part of the header before the white space
\* that precedes the address, or the address when there is no such part; of any other
\* header it returns the header itself as name and as address.  'user1
\* <user1@gmail.com>' gives name 'user1' and address 'user1@gmail.com'; 'user2@' gives
\* 'user2@' twice.
C22_ParseEmailAddressHeader ==
  pout # None =>
    LET header == pin.emailAddressHeader
        parsed == The(pout)
    IN /\ ~HasAddress(header) => parsed = [name |-> header, address |-> header]
       /\ HasAddress(header) =>
            \E q, t \in 1..Len(header) :
              /\ parsed.address = SubSeq(header, q, t)
              /\ \E i \in (q + 1)..(t - 1) :
                   /\ header[i] = "@"
                   /\ \A j \in (i + 1)..t : header[j] # ">"
              /\ t = Len(header) \/ header[t + 1] = ">"
              /\ \/ parsed.name = parsed.address
                 \/ \E e \in 1..(q - 2) :
                      /\ parsed.name = SubSeq(header, 1, e)
                      /\ IsWhiteSpace(header[e + 1])
                      /\ q = e + 2 \/ (q = e + 3 /\ header[e + 2] = "<")
       /\ header = HeaderUser1 =>
            parsed = [name |-> SubSeq(HeaderUser1, 1, 5),
                      address |-> SubSeq(HeaderUser1, 8, 22)]
       /\ header = HeaderUser2Truncated =>
            parsed = [name |-> HeaderUser2Truncated, address |-> HeaderUser2Truncated]

\* 'user1 <user1@gmail.com>' parsed to its name and its address
C22_Witness ==
  /\ pout # None
  /\ pin.emailAddressHeader = HeaderUser1
  /\ The(pout).name = <<"u", "s", "e", "r", "1">>
  /\ Len(The(pout).address) = 15

\* C25: a call whose notification cannot be decoded is rejected without having read
\* the file, handed anything to fs.writeFile or made a request.
C25_UndecodableNotification ==
  \A c \in Calls :
    (/\ Started(c)
     /\ OptionsOf(c).kind = "object"
     /\ OptionsOf(c).notification # None
     /\ ~NotificationOf(c).wellFormed)
    => /\ call[c].pc = "rejected"
       /\ call[c].error # None
       /\ call[c].result = None
       /\ NoIO(c)

\* a call with valid options rejected for its notification, on an instance that has
\* served a call
C25_Witness ==
  \E c \in Calls :
    /\ call[c].pc = "rejected"
    /\ call[c].error = Some("SyntaxError")
    /\ ~InvalidOptions(c)
    /\ api.startHistoryId # None
    /\ NoIO(c)

\* C26: the users.history.list requests of a call are one per response received, plus
\* the one awaited: the first carries no pageToken, each later one the nextPageToken
\* of the response before it, all the same startHistoryId and userId; once a response
\* has come without nextPageToken the call has made as many requests as it has
\* received pages and makes no more.
C26_Pagination ==
  \A c \in Calls :
    LET requests == RequestsOf(c, {"history.list"})
        k == Len(call[c].pages)
    IN /\ call[c].pc = "history" => Len(requests) = k + 1
       /\ call[c].fetchedHistory # None => (Len(requests) = k /\ k >= 1)
       /\ Len(requests) <= k + 1
       /\ \A i \in 1..Len(requests) :
            /\ requests[i].pageToken = IF i = 1 THEN None ELSE Some(i)
            /\ requests[i].startHistoryId = requests[1].startHistoryId
            /\ requests[i].startHistoryId = api.startHistoryId
            /\ requests[i].userId = NotificationOf(c).emailAddress

\* a change log of MaxPages pages fetched, the messages of its last page requested
C26_Witness ==
  \E c \in Calls :
    /\ call[c].fetchedHistory # None
    /\ Len(call[c].pages) = MaxPages
    /\ Len(RequestsOf(c, {"history.list"})) = MaxPages
    /\ call[c].pc = "messages"

\* the entry has the plural property of the history type
CarriesKind(historyEntry, historyType) ==
  HasOwnProperty(historyEntry, _makeHistoryTypePlural(historyType))

\* the history types of this._api.historyTypes the entry carries
RequestedKindsOf(historyEntry) ==
  {historyType \in Range(The(pin.api.historyTypes)) : CarriesKind(historyEntry, historyType)}

\* how many times the sequence has the element
Count(seq, x) == Len(SelectSeq(seq, LAMBDA y : y = x))

\* _filterHistory has been applied with neither addedLabelIds nor removedLabelIds
\* set: its result is the result of its first loop
KindPassOnly ==
  /\ pout # None
  /\ pin.api.addedLabelIds = None
  /\ pin.api.removedLabelIds = None

\* C27: the first loop of _filterHistory acts as one predicate: its output has each
\* entry of the log that carries at least one of the requested history types as many
\* times as the log has it, and no other entry.
C27_KindPassIsOnePredicate ==
  KindPassOnly =>
    \A historyEntry \in FilterEntries :
      Count(The(pout), historyEntry) =
        IF RequestedKindsOf(historyEntry) # {} THEN Count(pin.history, historyEntry) ELSE 0

\* the entries of the log that carry the history type, in the order of the log
GroupOf(historyType) ==
  SelectSeq(pin.history, LAMBDA historyEntry : CarriesKind(historyEntry, historyType))

\* where the group of the i-th listed history type ends in the output
RECURSIVE GroupEnd(_)
GroupEnd(i) ==
  IF i = 0 THEN 0 ELSE GroupEnd(i - 1) + Len(GroupOf(The(pin.api.historyTypes)[i]))

\* the place of the entry's history type in the fixed order of the four
RankOf(historyEntry) ==
  CHOOSE i \in 1..Len(VALID_HISTORY_TYPES) : CarriesKind(historyEntry, VALID_HISTORY_TYPES[i])

\* every entry of the log carries at most one of the four history types and no
\* history type is listed twice
OneKindEach ==
  /\ \A n \in 1..Len(pin.history) :
       Cardinality({historyType \in Range(VALID_HISTORY_TYPES) :
                      CarriesKind(pin.history[n], historyType)}) <= 1
  /\ \A i, j \in 1..Len(The(pin.api.historyTypes)) :
       The(pin.api.historyTypes)[i] = The(pin.api.historyTypes)[j] => i = j

\* C28 as stated: the output of the first loop is grouped in the fixed order
\* messageAdded, messageDeleted, labelAdded, labelRemoved whatever the order of
\* this._api.historyTypes, each group in the order of the log (for logs whose entries
\* carry one history type each and history types listed once each).
C28_GroupsInFixedOrder ==
  (KindPassOnly /\ OneKindEach) =>
    /\ \A i, j \in 1..Len(The(pout)) :
         i < j => RankOf(The(pout)[i]) <= RankOf(The(pout)[j])
    /\ \A historyType \in Range(The(pin.api.historyTypes)) :
         SelectSeq(The(pout), LAMBDA historyEntry : CarriesKind(historyEntry, historyType))
           = GroupOf(historyType)

\* C28: the output of the first loop is one group per element of
\* this._api.historyTypes, in the order of that list (the fixed order is the order
\* of the default list), and each group is the entries of the log that carry that
\* history type, in the order of the log.
C28_GroupsInListedOrder ==
  KindPassOnly =>
    LET historyTypes == The(pin.api.historyTypes)
    IN /\ Len(The(pout)) = GroupEnd(Len(historyTypes))
       /\ \A i \in 1..Len(historyTypes) :
            SubSeq(The(pout), GroupEnd(i - 1) + 1, GroupEnd(i)) = GroupOf(historyTypes[i])

\* labelRemoved listed before labelAdded, a log with a labelsAdded entry before a
\* labelsRemoved entry: the output has them the other way round
C28_Witness ==
  /\ KindPassOnly
  /\ OneKindEach
  /\ The(pin.api.historyTypes) = <<"labelRemoved", "labelAdded">>
  /\ Len(pin.history) = 2
  /\ CarriesKind(pin.history[1], "labelAdded")
  /\ CarriesKind(pin.history[2], "labelRemoved")
  /\ The(pout) = <<pin.history[2], pin.history[1]>>

(***************************************************************************)
(* SpecParseMessage: _parseMessage applied to a message and the history    *)
(* entry that refers to it.  The entries carry any of the four plural      *)
(* properties; the payloads are the trees of up to MaxNodes parts whose    *)
(* leaves are two text/plain parts, a text/html part, an image, a pdf and  *)
(* a text/calendar part.                                                   *)
(***************************************************************************)
\* a history entry that has the plural properties of the given history types
EntryCarrying(historyTypes) ==
  [id |-> 1, messages |-> <<"m1">>,
   messagesAdded |-> IF "messageAdded" \in historyTypes THEN Some(<<"m1">>) ELSE None,
   messagesDeleted |-> IF "messageDeleted" \in historyTypes THEN Some(<<"m1">>) ELSE None,
   labelsAdded |-> IF "labelAdded" \in historyTypes
                     THEN Some(<<[labelIds |-> <<"IMPORTANT">>]>>) ELSE None,
   labelsRemoved |-> IF "labelRemoved" \in historyTypes
                       THEN Some(<<[labelIds |-> <<"UNREAD">>]>>) ELSE None]

ParsedEntries == {EntryCarrying(historyTypes) : historyTypes \in SUBSET Range(VALID_HISTORY_TYPES)}

CalendarPart ==
  [mimeType |-> [type |-> "text", subtype |-> "calendar"], filename |-> "invite.ics",
   headers |-> <<>>, body |-> [data |-> "", attachmentId |-> "att3", size |-> 5],
   parts |-> <<>>]

LeafParts ==
  {TextPart("plain", "dGV4dA=="), TextPart("plain", "dGV4dDI="),
   TextPart("html", "PGI+aDwvYj4="), ImagePart, CalendarPart}

\* a part of the given type that has a file name and an attachment id
FilePart(type) ==
  [mimeType |-> [type |-> type, subtype |-> "x"], filename |-> type,
   headers |-> <<>>, body |-> [data |-> "", attachmentId |-> type, size |-> 1],
   parts |-> <<>>]

\* parts of the other types of attachment, and of types that are none
FileParts ==
  {PdfPart, FilePart("audio"), FilePart("video"), FilePart("font"), FilePart("model"),
   FilePart("message"), FilePart("chemical")}

Multipart(parts) ==
  [mimeType |-> [type |-> "multipart", subtype |-> "mixed"], filename |-> "",
   headers |-> <<>>, body |-> [data |-> "", attachmentId |-> "", size |-> 0],
   parts |-> parts]

\* payloads[k] is the payloads of exactly k parts and lists[k] the lists of payloads
\* of k - 1 parts in all; the table is extended until it has the payloads of n parts
RECURSIVE PayloadTable(_, _, _)
PayloadTable(n, payloads, lists) ==
  IF Len(payloads) = n THEN payloads
  ELSE LET k == Len(payloads) + 1
           next == Append(payloads, (IF k = 1 THEN LeafParts ELSE {})
                                      \cup {Multipart(parts) : parts \in lists[k]})
           more == UNION {{<<payload>> \o parts :
                             payload \in next[j], parts \in lists[k - j + 1]} : j \in 1..k}
       IN PayloadTable(n, next, Append(lists, more))

\* the payloads of up to n parts with leaves of LeafParts, and the multipart payloads
\* of two parts of FileParts
Payloads(n) ==
  UNION Range(PayloadTable(n, <<>>, <<{<<>>}>>))
    \cup {Multipart(<<first, second>>) : first \in FileParts, second \in FileParts}

InitParseMessage ==
  /\ api = InitialApi
  /\ file = None
  /\ pending = <<>>
  /\ call = [c \in Calls |-> IdleCall]
  /\ pin \in [function : {"_parseMessage"},
              message : {Mailbox("m1"), Mailbox("m9"), NotFoundMessage("m2")},
              historyEntry : ParsedEntries]
         \cup [function : {"_parseMessage"},
               message : {RawMessage("m1", Some(<<"INBOX">>), Some(payload)) :
                            payload \in Payloads(MaxNodes)},
               historyEntry : {EntryCarrying({"messageAdded"})}]
  /\ pout = None

ApplyParseMessage ==
  /\ pin.function = "_parseMessage"
  /\ pout = None
  /\ pout' = Some(_parseMessage(pin.message, pin.historyEntry))
  /\ UNCHANGED <<api, file, pending, call, pin>>

SpecParseMessage == InitParseMessage /\ [][ApplyParseMessage]_vars

\* C29: the historyType _parseMessage sets is the first of messageAdded,
\* messageDeleted, labelAdded, labelRemoved, in that order, whose plural property the
\* entry has, and the empty string when the entry has none of the four.
C29_HistoryType ==
  pout # None =>
    LET carried == {i \in 1..Len(VALID_HISTORY_TYPES) :
                      pin.historyEntry[_makeHistoryTypePlural(VALID_HISTORY_TYPES[i])] # None}
    IN The(pout).historyType =
         Some(IF carried = {} THEN ""
              ELSE VALID_HISTORY_TYPES[CHOOSE i \in carried : \A j \in carried : i <= j])

\* a message with a payload parsed with an entry that has labelsAdded and
\* labelsRemoved: its historyType is labelAdded
C29_Witness ==
  /\ pout # None
  /\ pin.historyEntry = EntryCarrying({"labelAdded", "labelRemoved"})
  /\ pin.message.payload # None
  /\ The(pout).historyType = Some("labelAdded")

\* the parts of a payload that are not multipart, in depth-first pre-order
RECURSIVE LeavesOf(_)
LeavesOf(payload) ==
  IF payload.mimeType.type = "multipart"
    THEN Flatten([i \in 1..Len(payload.parts) |-> LeavesOf(payload.parts[i])])
    ELSE <<payload>>

\* the decoded body of the last leaf of the given text subtype, if there is one
LastBodyOf(leaves, subtype) ==
  LET texts == SelectSeq(leaves, LAMBDA leaf :
                 leaf.mimeType = [type |-> "text", subtype |-> subtype])
  IN IF texts = <<>> THEN None ELSE Some(Base64ToString(texts[Len(texts)].body.data))

\* C30: of a message with a payload, _parseMessage sets bodyText to the decoded body of
\* the last text/plain leaf in depth-first pre-order and bodyHtml to that of the last
\* text/html leaf (each left unset when there is no such leaf), and attachments to the
\* mimeType, filename, attachmentId and size of the leaves of type image, audio, video,
\* application, font or model, in that order of traversal; no other leaf adds anything.
C30_ParsePayload ==
  (pout # None /\ pin.message.payload # None) =>
    LET leaves == LeavesOf(The(pin.message.payload))
        attached == SelectSeq(leaves, LAMBDA leaf :
                      leaf.mimeType.type \in
                        {"image", "audio", "video", "application", "font", "model"})
    IN /\ The(pout).bodyText = LastBodyOf(leaves, "plain")
       /\ The(pout).bodyHtml = LastBodyOf(leaves, "html")
       /\ The(pout).attachments =
            Some([i \in 1..Len(attached) |->
                    [mimeType |-> attached[i].mimeType,
                     filename |-> attached[i].filename,
                     attachmentId |-> attached[i].body.attachmentId,
                     size |-> attached[i].body.size,
                     data |-> None]])

\* a payload with a multipart inside, whose leaves are an attachment, a text/plain
\* leaf and after them a text/plain leaf of another content: bodyText is the
\* content of the later one and the attachment is listed
C30_Witness ==
  /\ pout # None
  /\ pin.message.payload # None
  /\ LET payload == The(pin.message.payload)
         leaves == LeavesOf(payload)
     IN /\ payload.mimeType.type = "multipart"
        /\ \E i \in 1..Len(payload.parts) :
             /\ payload.parts[i].mimeType.type = "multipart"
             /\ payload.parts[i].parts # <<>>
        /\ Len(leaves) = 3
        /\ IsAttachmentType(leaves[1].mimeType)
        /\ leaves[2] = TextPart("plain", "dGV4dA==")
        /\ leaves[3] = TextPart("plain", "dGV4dDI=")
        /\ The(pout).bodyText = Some("text2")
        /\ Len(The(The(pout).attachments)) = 1

\* C31: the list getMessagesWithoutAttachment resolves with is the parsed messages that
\* pass _filterMessage, entry by entry in the order of the filtered history and within
\* an entry in the order of its messages, in whatever order the responses of
\* users.messages.get came.
C31_CompletionOrder ==
  \A c \in Calls :
    (/\ call[c].pc = "resolved"
     /\ call[c].method = "getMessagesWithoutAttachment"
     /\ call[c].completed # <<>>) =>
      LET wanted == Positions(call[c].history, 1)
          parsed == [k \in 1..Len(wanted) |->
                       _parseMessage(
                         IF The(call[c].fetched[k]).notFound
                           THEN NotFoundMessage(
                                  call[c].history[wanted[k].entry].messages[wanted[k].message])
                           ELSE Mailbox(
                                  call[c].history[wanted[k].entry].messages[wanted[k].message]),
                         call[c].history[wanted[k].entry])]
      IN /\ Len(call[c].fetched) = Len(wanted)
         /\ The(call[c].result) =
              SelectSeq(parsed, LAMBDA message : _filterMessage(api, message))

\* two messages returned whose responses came in the other order
C31_Witness ==
  \E c \in Calls :
    /\ call[c].pc = "resolved"
    /\ call[c].method = "getMessagesWithoutAttachment"
    /\ Len(call[c].completed) >= 2
    /\ call[c].completed[1] > call[c].completed[2]
    /\ Len(The(call[c].result)) >= 2
    /\ The(call[c].result)[1].id # The(call[c].result)[2].id

\* both calls are for the same user, both read the file as it was before either cycle
\* wrote, both notifications are newer than the prevHistoryId of that file, and both
\* cycles have returned
SameUserOverlap ==
  /\ \A c \in Calls :
       /\ Initialized(c)
       /\ call[c].loaded = Some(OverlapFile)
       /\ NotificationOf(c).historyId
            > RecordOf(The(OverlapFile), NotificationOf(c).emailAddress).prevHistoryId
  /\ NotificationOf(1).emailAddress = NotificationOf(2).emailAddress

\* the prevHistoryId the file holds for the user
PersistedPrevHistoryId(emailAddress) == RecordOf(The(file), emailAddress).prevHistoryId

\* C32: two cycles of one user that both read the file before either wrote it both
\* return true and both fetch the change log from the prevHistoryId of that file;
\* once their writes are done the file holds the historyId of one of the two
\* notifications, which need not be the larger.
C32_OverlappingCycles ==
  SameUserOverlap =>
    /\ \A c \in Calls :
         /\ call[c].shouldProceed = Some(TRUE)
         /\ RequestsOf(c, {"history.list"})[1].startHistoryId =
              Some(RecordOf(The(OverlapFile), NotificationOf(c).emailAddress).prevHistoryId)
    /\ pending = <<>> =>
         PersistedPrevHistoryId(NotificationOf(1).emailAddress)
           \in {NotificationOf(1).historyId, NotificationOf(2).historyId}

\* both cycles returned true with the same startHistoryId, and the file holds the
\* smaller of the two historyIds
C32_Witness ==
  /\ SameUserOverlap
  /\ pending = <<>>
  /\ NotificationOf(1).historyId # NotificationOf(2).historyId
  /\ PersistedPrevHistoryId(NotificationOf(1).emailAddress)
       = Min({NotificationOf(1).historyId, NotificationOf(2).historyId})
  /\ \A c \in Calls : call[c].shouldProceed = Some(TRUE)
  /\ RequestsOf(1, {"history.list"})[1].startHistoryId
       = RequestsOf(2, {"history.list"})[1].startHistoryId

\* C33: a call rejected after its cycle returned true leaves in the file the
\* prevHistoryId the cycle found there.
C33_RejectedCallKeepsPrevHistoryId ==
  \A c \in Calls :
    (/\ call[c].pc = "rejected"
     /\ call[c].shouldProceed = Some(TRUE)
     /\ LoadedRecord(c)
     /\ pending = <<>>) =>
      PersistedPrevHistoryId(NotificationOf(c).emailAddress) = LoadedPrevHistoryId(c)

\* C34: while two calls for two different users are in flight, every request a call
\* makes (users.watch, users.history.list, users.messages.get,
\* users.messages.attachments.get) has the userId of that call's notification.
C34_RequestsOfOwnUser ==
  (/\ \A c \in Calls : Started(c)
   /\ NotificationOf(1).emailAddress # NotificationOf(2).emailAddress) =>
    \A c \in Calls :
      \A n \in 1..Len(call[c].requests) :
        call[c].requests[n].userId = NotificationOf(c).emailAddress

\* C35: two cycles of two different users that both read the file before either wrote
\* it, each on its own user's record and with a notification newer than it: once
\* both writes are done the file holds, for each user, the historyId of that user's
\* notification.
C35_BothUpdatesPersisted ==
  (/\ \A c \in Calls :
        /\ Initialized(c)
        /\ call[c].loaded = Some(OverlapFile)
        /\ RequestsOf(c, {"users.watch"})[1].userId = NotificationOf(c).emailAddress
        /\ call[c].shouldProceed = Some(TRUE)
   /\ NotificationOf(1).emailAddress # NotificationOf(2).emailAddress
   /\ pending = <<>>) =>
    \A c \in Calls :
      PersistedPrevHistoryId(NotificationOf(c).emailAddress) = NotificationOf(c).historyId

\* C36: a cycle that runs alone and read a file writes an array that has, at the same
\* places, every record of the file that is of another user than the notification's,
\* unchanged, and no fewer records than the file; once the write is done the file is
\* that array.
C36_OtherRecordsUntouched ==
  \A c \in Calls :
    (/\ Initialized(c)
     /\ The(call[c].loaded) # None) =>
      LET before == The(The(call[c].loaded))
          after == The(call[c].written)
      IN /\ Len(after) >= Len(before)
         /\ \A i \in 1..Len(before) :
              before[i].emailAddress # NotificationOf(c).emailAddress =>
                after[i] = before[i]
         /\ pending = <<>> => file = Some(after)

\* a cycle of user1 on a file that holds a record of user2 and one of user1: the file
\* has user1's record changed and user2's as it was
C36_Witness ==
  \E c \in Calls :
    /\ Initialized(c)
    /\ The(call[c].loaded) # None
    /\ pending = <<>>
    /\ NotificationOf(c).emailAddress = "user1"
    /\ Len(The(The(call[c].loaded))) = 2
    /\ The(The(call[c].loaded))[1].emailAddress = "user2"
    /\ The(file)[1] = The(The(call[c].loaded))[1]
    /\ The(file)[2] # The(The(call[c].loaded))[2]

\* the history types whose plural property the entry has
KindsOf(historyEntry) ==
  {historyType \in Range(VALID_HISTORY_TYPES) :
     historyEntry[_makeHistoryTypePlural(historyType)] # None}

\* the entries of the filtered history that refer to the message
EntriesOf(c, message) ==
  {call[c].history[i] : i \in {i \in 1..Len(call[c].history) :
                                 Includes(call[c].history[i].messages, message.id)}}

\* C37 as stated: every message a call resolves with has as historyType one of the
\* history types of the call (those of its options, or the four).
C37_ReturnedKindsRequested ==
  \A c \in Calls :
    call[c].pc = "resolved" =>
      \A n \in 1..Len(The(call[c].result)) :
        \E historyType \in Range(EffectiveHistoryTypes(The(call[c].props))) :
          The(call[c].result)[n].historyType = Some(historyType)

\* C37: every message a call resolves with comes from an entry that has the plural
\* property of one of the history types of the call, and its historyType is the first
\* of the four that the entry carries: never the empty string, and one of the history
\* types of the call when the entry carries one only.
C37_ReturnedKindsOfEntry ==
  \A c \in Calls :
    call[c].pc = "resolved" =>
      \A n \in 1..Len(The(call[c].result)) :
        LET message == The(call[c].result)[n]
        IN \E historyEntry \in EntriesOf(c, message) :
             /\ KindsOf(historyEntry) \cap Range(EffectiveHistoryTypes(The(call[c].props))) # {}
             /\ \E i \in 1..Len(VALID_HISTORY_TYPES) :
                  /\ message.historyType = Some(VALID_HISTORY_TYPES[i])
                  /\ VALID_HISTORY_TYPES[i] \in KindsOf(historyEntry)
                  /\ \A j \in 1..(i - 1) : VALID_HISTORY_TYPES[j] \notin KindsOf(historyEntry)
             /\ Cardinality(KindsOf(historyEntry)) = 1 =>
                  \E historyType \in Range(EffectiveHistoryTypes(The(call[c].props))) :
                    message.historyType = Some(historyType)

\* a call for labelRemoved resolved with the message of an entry that has labelsAdded
\* and labelsRemoved, its historyType labelAdded
C37_Witness ==
  \E c \in Calls :
    /\ call[c].pc = "resolved"
    /\ EffectiveHistoryTypes(The(call[c].props)) = <<"labelRemoved">>
    /\ call[c].history = <<EntryRelabelled>>
    /\ Len(The(call[c].result)) = 1
    /\ The(call[c].result)[1].historyType = Some("labelAdded")

====
